---- MODULE Spec2Model ----
(***************************************************************************)
(* Model of the myth-extraction pipeline of parse-data.js: the two         *)
(* annotators (extractThemes, extractBiblicalReferences), the text         *)
(* normalizers, the Source-A (Schwartz) and Source-B (Ginzberg) segmenters *)
(* and the corpus aggregator of main.                                      *)
(*                                                                         *)
(* A JavaScript string is a sequence of one-character strings; a document  *)
(* is the list of its lines (content.split('\n')), given as a number of    *)
(* leading blank lines (pad) and the lines after them (body).              *)
(***************************************************************************)
EXTENDS Integers, Sequences, FiniteSets, TLC

VARIABLES
  pc,               \* position of the program being run
  text,             \* argument of the annotators (SpecText)
  references,       \* result of extractBiblicalReferences(text)
  themes,           \* result of extractThemes(text)
  content,          \* the document handed to the segmenter being stepped
  volume,           \* volume argument of parseGinzbergFile
  seg,              \* the segmenter's local variables (i, currentMyth, ...)
  result,           \* the segmenter's return value
  files,            \* the three source files main reads
  schwartzMyths,    \* main's locals
  ginzberg1Myths,
  ginzberg2Myths,
  database,         \* the database main builds, <<>> before
  output,           \* data/myths.json: <<>> until written, then <<database>>
  previous,         \* the files and the output of the run before this one
  runs,             \* how many times the program was started
  process,          \* the node process: running or exited, its exit status, its stderr
  state,            \* the browsing page's state object
  elements,         \* what the page shows: field values, active chips, cards, modal
  searchTimeout,    \* the pending callbacks of the search field's timer
  cleared           \* whether clearAllFilters ran since the last input event, and on a pending timer or not

vars == <<pc, text, references, themes, content, volume, seg, result, files,
          schwartzMyths, ginzberg1Myths, ginzberg2Myths, database, output, previous, runs, process,
          state, elements, searchTimeout, cleared>>

----------------------------------------------------------------------------
(* Characters                                                              *)

EnDash == "EN DASH"   \* U+2013, one character
UpperLetters == <<"A","B","C","D","E","F","G","H","I","J","K","L","M","N","O","P","Q","R","S","T","U","V","W","X","Y","Z">>
LowerLetters == <<"a","b","c","d","e","f","g","h","i","j","k","l","m","n","o","p","q","r","s","t","u","v","w","x","y","z">>
Upper == {UpperLetters[k] : k \in 1..26}
Lower == {LowerLetters[k] : k \in 1..26}
Digits == {"0","1","2","3","4","5","6","7","8","9"}
\* the characters \s matches (a line holds no line feed)
WhiteSpace == {" ", "\t", "\r"}

LowerOf == [c \in Upper |-> LowerLetters[CHOOSE k \in 1..26 : UpperLetters[k] = c]]
UpperOf == [c \in Lower |-> UpperLetters[CHOOSE k \in 1..26 : LowerLetters[k] = c]]
DigitValue == [c \in Digits |-> CHOOSE n \in 0..9 : <<"0","1","2","3","4","5","6","7","8","9">>[n + 1] = c]

toLowerChar(c) == IF c \in Upper THEN LowerOf[c] ELSE c
toUpperChar(c) == IF c \in Lower THEN UpperOf[c] ELSE c

----------------------------------------------------------------------------
(* String.prototype operations used by the program                         *)

Range(s) == {s[k] : k \in 1..Len(s)}
MinOf(S) == CHOOSE m \in S : \A n \in S : m <= n
MaxOf(S) == CHOOSE m \in S : \A n \in S : n <= m

toLowerCase(s) == [k \in 1..Len(s) |-> toLowerChar(s[k])]
toUpperCase(s) == [k \in 1..Len(s) |-> toUpperChar(s[k])]

\* s.trim()
trim(s) ==
  LET keep == {k \in 1..Len(s) : s[k] \notin WhiteSpace}
  IN  IF keep = {} THEN <<>> ELSE SubSeq(s, MinOf(keep), MaxOf(keep))

\* sub occurs in s at (1-based) position p
HasAt(s, p, sub) ==
  /\ p + Len(sub) - 1 <= Len(s)
  /\ \A k \in 1..Len(sub) : s[p + k - 1] = sub[k]

startsWith(s, sub) == HasAt(s, 1, sub)

\* s.includes(sub)
includes(s, sub) == \E p \in 1..(Len(s) - Len(sub) + 1) : HasAt(s, p, sub)

\* s.slice(n): the characters after the first n
slice(s, n) == SubSeq(s, n + 1, Len(s))

\* s.substring(0, n)
substring0(s, n) == IF Len(s) <= n THEN s ELSE SubSeq(s, 1, n)

\* s.replace(/sub/g, rep) for a literal sub: leftmost matches, left to right
RECURSIVE replaceAll(_, _, _)
replaceAll(s, sub, rep) ==
  LET hits == {p \in 1..(Len(s) - Len(sub) + 1) : HasAt(s, p, sub)}
  IN  IF hits = {} THEN s
      ELSE LET p == MinOf(hits)
           IN  SubSeq(s, 1, p - 1) \o rep \o replaceAll(slice(s, p + Len(sub) - 1), sub, rep)

\* s.split(sep) for a one-character sep
RECURSIVE split(_, _)
split(s, sep) ==
  LET hits == {p \in 1..Len(s) : s[p] = sep}
  IN  IF hits = {} THEN <<s>>
      ELSE LET p == MinOf(hits)
           IN  <<SubSeq(s, 1, p - 1)>> \o split(slice(s, p), sep)

\* parts.join(' ')
RECURSIVE join(_)
join(parts) ==
  IF parts = <<>> THEN <<>>
  ELSE IF Len(parts) = 1 THEN parts[1]
  ELSE parts[1] \o <<" ">> \o join(Tail(parts))

\* parseInt of a string of digits
RECURSIVE parseInt(_)
parseInt(ds) ==
  IF ds = <<>> THEN 0 ELSE 10 * parseInt(SubSeq(ds, 1, Len(ds) - 1)) + DigitValue[ds[Len(ds)]]

\* the end (exclusive) of the longest run of characters of class C that starts at p
runEnd(s, p, C) ==
  LET stops == {q \in p..Len(s) : s[q] \notin C}
  IN  IF stops = {} THEN Len(s) + 1 ELSE MinOf(stops)

\* a string with the marked characters taken out
Dropped == ""
IsKept(c) == c # Dropped
Compact(marked) == SelectSeq(marked, IsKept)

\* Set.prototype.add on an insertion-ordered Set, kept as the list of its members
SetAdd(set, x) == IF x \in Range(set) THEN set ELSE Append(set, x)

\* values of the variables a specification does not use
NoDoc == [pad |-> 0, body |-> <<>>]
NoSeg == [i |-> 0]

\* a path at which there is no file to read
Missing == [pad |-> -1, body |-> <<>>]

\* the states of the node process
NotStarted == [state |-> "none", exitCode |-> 0, stderr |-> <<>>]
Running == [state |-> "running", exitCode |-> 0, stderr |-> <<>>]
Exited(code, message) == [state |-> "exited", exitCode |-> code, stderr |-> message]

\* sequences of at most n members of S
RECURSIVE SeqsUpTo(_, _)
SeqsUpTo(S, n) ==
  IF n = 0 THEN {<<>>}
  ELSE SeqsUpTo(S, n - 1) \cup {s \o <<x>> : s \in SeqsUpTo(S, n - 1), x \in S}

annotatorVars == <<text, references, themes>>
\* what the statements of a segmenter leave alone
mainVars == <<files, schwartzMyths, ginzberg1Myths, ginzberg2Myths, database, output, previous, runs, process>>
browserVars == <<state, elements, searchTimeout, cleared>>
outsideSegmenter == <<content, volume, text, references, themes, mainVars, browserVars>>

\* the page not opened
BrowserIdle ==
  /\ state = <<>>
  /\ elements = <<>>
  /\ searchTimeout = 0
  /\ cleared = "no"

\* the main program not started: the value of its variables in the
\* specifications of one function
MainIdle ==
  /\ files = <<>>
  /\ schwartzMyths = <<>>
  /\ ginzberg1Myths = <<>>
  /\ ginzberg2Myths = <<>>
  /\ database = <<>>
  /\ output = <<>>
  /\ previous = <<>>
  /\ runs = 0
  /\ process = NotStarted
  /\ BrowserIdle

----------------------------------------------------------------------------
(* Theme tagger                                                            *)

\* THEME_KEYWORDS, in the order of Object.entries
THEME_KEYWORDS == <<
  [theme |-> "creation", keywords |-> <<<<"c","r","e","a","t","i","o","n">>, <<"c","r","e","a","t","e","d">>, <<"c","r","e","a","t","e">>, <<"f","o","r","m","e","d">>, <<"b","e","g","i","n","n","i","n","g">>, <<"o","r","i","g","i","n">>, <<"g","e","n","e","s","i","s">>, <<"f","i","r","s","t"," ","d","a","y">>>>],
  [theme |-> "angels", keywords |-> <<<<"a","n","g","e","l">>, <<"s","e","r","a","p","h">>, <<"c","h","e","r","u","b">>, <<"o","p","h","a","n">>, <<"m","e","t","a","t","r","o","n">>, <<"s","a","n","d","a","l","p","h","o","n">>, <<"m","i","c","h","a","e","l">>, <<"g","a","b","r","i","e","l">>, <<"r","a","p","h","a","e","l">>, <<"m","i","n","i","s","t","e","r","i","n","g">>>>],
  [theme |-> "demons", keywords |-> <<<<"d","e","m","o","n">>, <<"s","a","t","a","n">>, <<"l","i","l","i","t","h">>, <<"s","h","e","d","i","m">>, <<"s","a","m","a","e","l">>, <<"e","v","i","l"," ","s","p","i","r","i","t">>, <<"a","z","a","z","e","l">>, <<"p","r","i","n","c","e"," ","o","f"," ","d","a","r","k","n","e","s","s">>>>],
  [theme |-> "heaven", keywords |-> <<<<"h","e","a","v","e","n">>, <<"p","a","r","a","d","i","s","e">>, <<"t","h","r","o","n","e">>, <<"c","e","l","e","s","t","i","a","l">>, <<"f","i","r","m","a","m","e","n","t">>, <<"d","i","v","i","n","e"," ","c","h","a","r","i","o","t">>, <<"m","e","r","k","a","v","a","h">>, <<"h","e","a","v","e","n","l","y">>>>],
  [theme |-> "hell", keywords |-> <<<<"h","e","l","l">>, <<"g","e","h","e","n","n","a">>, <<"g","e","h","i","n","o","m">>, <<"u","n","d","e","r","w","o","r","l","d">>, <<"p","u","n","i","s","h","m","e","n","t">>, <<"s","h","e","o","l">>>>],
  [theme |-> "messiah", keywords |-> <<<<"m","e","s","s","i","a","h">>, <<"r","e","d","e","m","p","t","i","o","n">>, <<"e","n","d"," ","o","f"," ","d","a","y","s">>, <<"o","l","a","m"," ","h","a","b","a">>, <<"w","o","r","l","d"," ","t","o"," ","c","o","m","e">>, <<"m","e","s","s","i","a","n","i","c">>>>],
  [theme |-> "torah", keywords |-> <<<<"t","o","r","a","h">>, <<"s","c","r","i","p","t","u","r","e">>, <<"l","a","w">>, <<"c","o","m","m","a","n","d","m","e","n","t">>, <<"c","o","v","e","n","a","n","t">>, <<"r","e","v","e","l","a","t","i","o","n">>, <<"s","i","n","a","i">>, <<"t","a","b","l","e","t","s">>>>],
  [theme |-> "patriarchs", keywords |-> <<<<"a","b","r","a","h","a","m">>, <<"i","s","a","a","c">>, <<"j","a","c","o","b">>, <<"s","a","r","a","h">>, <<"r","e","b","e","c","c","a">>, <<"r","a","c","h","e","l">>, <<"l","e","a","h">>, <<"p","a","t","r","i","a","r","c","h">>>>],
  [theme |-> "moses", keywords |-> <<<<"m","o","s","e","s">>, <<"p","h","a","r","a","o","h">>, <<"e","g","y","p","t">>, <<"p","l","a","g","u","e","s">>, <<"r","e","d"," ","s","e","a">>, <<"b","u","r","n","i","n","g"," ","b","u","s","h">>, <<"s","i","n","a","i">>>>],
  [theme |-> "adam-eve", keywords |-> <<<<"a","d","a","m">>, <<"e","v","e">>, <<"g","a","r","d","e","n"," ","o","f"," ","e","d","e","n">>, <<"e","d","e","n">>, <<"f","o","r","b","i","d","d","e","n"," ","f","r","u","i","t">>, <<"t","r","e","e"," ","o","f"," ","k","n","o","w","l","e","d","g","e">>, <<"f","i","r","s","t"," ","m","a","n">>, <<"f","i","r","s","t"," ","w","o","m","a","n">>>>],
  [theme |-> "noah", keywords |-> <<<<"n","o","a","h">>, <<"f","l","o","o","d">>, <<"a","r","k">>, <<"d","e","l","u","g","e">>, <<"r","a","i","n","b","o","w">>>>],
  [theme |-> "mysticism", keywords |-> <<<<"k","a","b","b","a","l","a","h">>, <<"s","e","f","i","r","o","t">>, <<"z","o","h","a","r">>, <<"m","y","s","t","i","c","a","l">>, <<"m","e","d","i","t","a","t","i","o","n">>, <<"d","i","v","i","n","e"," ","n","a","m","e">>, <<"s","e","c","r","e","t">>, <<"h","i","d","d","e","n">>>>],
  [theme |-> "creatures", keywords |-> <<<<"l","e","v","i","a","t","h","a","n">>, <<"b","e","h","e","m","o","t","h">>, <<"z","i","z">>, <<"p","h","o","e","n","i","x">>, <<"g","o","l","e","m">>, <<"d","r","a","g","o","n">>, <<"r","e","'","e","m">>, <<"m","o","n","s","t","e","r">>, <<"b","e","a","s","t">>>>],
  [theme |-> "soul", keywords |-> <<<<"s","o","u","l">>, <<"n","e","s","h","a","m","a">>, <<"r","u","a","c","h">>, <<"n","e","f","e","s","h">>, <<"s","p","i","r","i","t">>, <<"a","f","t","e","r","l","i","f","e">>, <<"r","e","i","n","c","a","r","n","a","t","i","o","n">>, <<"t","r","e","a","s","u","r","y"," ","o","f"," ","s","o","u","l","s">>>>],
  [theme |-> "prophecy", keywords |-> <<<<"p","r","o","p","h","e","t">>, <<"p","r","o","p","h","e","c","y">>, <<"v","i","s","i","o","n">>, <<"d","r","e","a","m">>, <<"r","e","v","e","l","a","t","i","o","n">>, <<"s","e","e","r">>>>],
  [theme |-> "temple", keywords |-> <<<<"t","e","m","p","l","e">>, <<"t","a","b","e","r","n","a","c","l","e">>, <<"m","i","s","h","k","a","n">>, <<"s","a","n","c","t","u","a","r","y">>, <<"h","o","l","y"," ","o","f"," ","h","o","l","i","e","s">>, <<"a","r","k"," ","o","f"," ","t","h","e"," ","c","o","v","e","n","a","n","t">>>>],
  [theme |-> "exile", keywords |-> <<<<"e","x","i","l","e">>, <<"d","i","a","s","p","o","r","a">>, <<"w","a","n","d","e","r","i","n","g">>, <<"s","c","a","t","t","e","r","e","d">>, <<"c","a","p","t","i","v","i","t","y">>, <<"b","a","b","y","l","o","n">>>>],
  [theme |-> "holy-land", keywords |-> <<<<"j","e","r","u","s","a","l","e","m">>, <<"z","i","o","n">>, <<"i","s","r","a","e","l">>, <<"c","a","n","a","a","n">>, <<"p","r","o","m","i","s","e","d"," ","l","a","n","d">>, <<"h","o","l","y"," ","l","a","n","d">>>>]
>>

\* the inner loop over one theme's keywords, left at the first keyword found
RECURSIVE KeywordLoop(_, _, _)
KeywordLoop(lowerText, keywords, k) ==
  IF k > Len(keywords) THEN FALSE
  ELSE IF includes(lowerText, keywords[k]) THEN TRUE
  ELSE KeywordLoop(lowerText, keywords, k + 1)

\* the outer loop over the themes; found is the Set themes
RECURSIVE ThemeLoop(_, _, _)
ThemeLoop(lowerText, t, found) ==
  IF t > Len(THEME_KEYWORDS) THEN found
  ELSE IF KeywordLoop(lowerText, THEME_KEYWORDS[t].keywords, 1)
       THEN ThemeLoop(lowerText, t + 1, SetAdd(found, THEME_KEYWORDS[t].theme))
       ELSE ThemeLoop(lowerText, t + 1, found)

\* the same function searching the text as given (toLowerCase left out)
extractThemes_caseSensitive(txt) == ThemeLoop(txt, 1, <<>>)

extractThemes(txt) == ThemeLoop(toLowerCase(txt), 1, <<>>)

----------------------------------------------------------------------------
(* Reference extractor                                                     *)

\* BIBLICAL_BOOKS: the text each alternative of the pattern matches (the
\* escaped 'Isa\\.' is the literal Isa.), in the order of the alternation
BIBLICAL_BOOKS == <<
  <<"G","e","n","e","s","i","s">>,
  <<"E","x","o","d","u","s">>,
  <<"L","e","v","i","t","i","c","u","s">>,
  <<"N","u","m","b","e","r","s">>,
  <<"D","e","u","t","e","r","o","n","o","m","y">>,
  <<"J","o","s","h","u","a">>,
  <<"J","u","d","g","e","s">>,
  <<"R","u","t","h">>,
  <<"1"," ","S","a","m","u","e","l">>,
  <<"2"," ","S","a","m","u","e","l">>,
  <<"1"," ","K","i","n","g","s">>,
  <<"2"," ","K","i","n","g","s">>,
  <<"1"," ","C","h","r","o","n","i","c","l","e","s">>,
  <<"2"," ","C","h","r","o","n","i","c","l","e","s">>,
  <<"E","z","r","a">>,
  <<"N","e","h","e","m","i","a","h">>,
  <<"E","s","t","h","e","r">>,
  <<"J","o","b">>,
  <<"P","s","a","l","m","s">>,
  <<"P","r","o","v","e","r","b","s">>,
  <<"E","c","c","l","e","s","i","a","s","t","e","s">>,
  <<"S","o","n","g"," ","o","f"," ","S","o","n","g","s">>,
  <<"S","o","n","g"," ","o","f"," ","S","o","l","o","m","o","n">>,
  <<"I","s","a","i","a","h">>,
  <<"J","e","r","e","m","i","a","h">>,
  <<"L","a","m","e","n","t","a","t","i","o","n","s">>,
  <<"E","z","e","k","i","e","l">>,
  <<"D","a","n","i","e","l">>,
  <<"H","o","s","e","a">>,
  <<"J","o","e","l">>,
  <<"A","m","o","s">>,
  <<"O","b","a","d","i","a","h">>,
  <<"J","o","n","a","h">>,
  <<"M","i","c","a","h">>,
  <<"N","a","h","u","m">>,
  <<"H","a","b","a","k","k","u","k">>,
  <<"Z","e","p","h","a","n","i","a","h">>,
  <<"H","a","g","g","a","i">>,
  <<"Z","e","c","h","a","r","i","a","h">>,
  <<"M","a","l","a","c","h","i">>,
  <<"B","e","r","e","i","s","h","i","t">>,
  <<"S","h","e","m","o","t">>,
  <<"V","a","y","i","k","r","a">>,
  <<"B","a","m","i","d","b","a","r">>,
  <<"D","e","v","a","r","i","m">>,
  <<"T","e","h","i","l","l","i","m">>,
  <<"M","i","s","h","l","e","i">>,
  <<"K","o","h","e","l","e","t">>,
  <<"S","h","i","r"," ","H","a","S","h","i","r","i","m">>,
  <<"I","y","o","v">>,
  <<"Y","e","s","h","a","y","a","h","u">>,
  <<"Y","i","r","m","i","y","a","h","u">>,
  <<"Y","e","c","h","e","z","k","e","l">>,
  <<"D","a","n","i","y","e","l">>,
  <<"I","s","a",".">>,
  <<"G","e","n",".">>,
  <<"E","x","o","d",".">>,
  <<"L","e","v",".">>,
  <<"N","u","m",".">>,
  <<"D","e","u","t",".">>,
  <<"E","z","e","k",".">>,
  <<"D","a","n",".">>,
  <<"P","s",".">>,
  <<"P","r","o","v",".">>,
  <<"B",".">>,
  <<"Y",".">>,
  <<"M","i","d","r","a","s","h">>,
  <<"P","i","r","k","e","i">>,
  <<"Z","o","h","a","r">>
>>

BooksLower == [b \in 1..Len(BIBLICAL_BOOKS) |-> toLowerCase(BIBLICAL_BOOKS[b])]

\* the first alternative of (Genesis|Exodus|...) that matches at p, ignoring
\* case (flag i); 0 when none does.  lowerText is the text lower-cased.
BookAt(lowerText, p) ==
  LET alts == {b \in 1..Len(BIBLICAL_BOOKS) : HasAt(lowerText, p, BooksLower[b])}
  IN  IF alts = {} THEN 0 ELSE MinOf(alts)

\* One match of BIBLICAL_PATTERN that starts at p with alternative b:
\*   (book)\s*(\d+)?[:\.]?(\d+)?(?:[--](\d+))?
\* Every part after the book is optional and greedy, so the first try succeeds.
\* An unmatched group (undefined) is the empty string.
MatchAt(txt, p, b) ==
  LET e1 == p + Len(BIBLICAL_BOOKS[b])
      s2 == runEnd(txt, e1, WhiteSpace)
      e2 == runEnd(txt, s2, Digits)
      s3 == IF e2 <= Len(txt) /\ txt[e2] \in {":", "."} THEN e2 + 1 ELSE e2
      e3 == runEnd(txt, s3, Digits)
      s4 == IF e3 <= Len(txt) /\ txt[e3] \in {"-", EnDash} THEN e3 + 1 ELSE e3
      e4 == IF s4 > e3 THEN runEnd(txt, s4, Digits) ELSE s4
      g4 == e4 > s4
  IN  [m1 |-> SubSeq(txt, p, e1 - 1),
       m2 |-> SubSeq(txt, s2, e2 - 1),
       m3 |-> SubSeq(txt, s3, e3 - 1),
       m4 |-> IF g4 THEN SubSeq(txt, s4, e4 - 1) ELSE <<>>,
       lastIndex |-> IF g4 THEN e4 ELSE e3]

\* the successive results of pattern.exec(text) (flag g) from lastIndex on,
\* until it returns null
RECURSIVE execAll(_, _, _)
execAll(txt, lowerText, lastIndex) ==
  LET starts == {p \in lastIndex..Len(txt) : BookAt(lowerText, p) # 0}
  IN  IF starts = {} THEN <<>>
      ELSE LET p == MinOf(starts)
               m == MatchAt(txt, p, BookAt(lowerText, p))
           IN  <<m>> \o execAll(txt, lowerText, m.lastIndex)

\* the matches of a fresh copy of BIBLICAL_PATTERN on text (lastIndex 0)
Matches(txt) == execAll(txt, toLowerCase(txt), 1)

\* s.replace(/\\./g, ''): removes every backslash together with the character
\* after it
RECURSIVE stripBackslashPairs(_)
stripBackslashPairs(s) ==
  LET hits == {p \in 1..(Len(s) - 1) : s[p] = "\\"}
  IN  IF hits = {} THEN s
      ELSE LET p == MinOf(hits)
           IN  SubSeq(s, 1, p - 1) \o stripBackslashPairs(slice(s, p + 1))

\* the citation string built from one match
RefOf(m) ==
  LET book == stripBackslashPairs(m.m1)
      ref  == IF m.m2 # <<>>
              THEN book \o <<" ">> \o m.m2 \o
                   (IF m.m3 # <<>>
                    THEN <<":">> \o m.m3 \o (IF m.m4 # <<>> THEN <<"-">> \o m.m4 ELSE <<>>)
                    ELSE <<>>)
              ELSE book
  IN  trim(ref)

\* references.push(ref) in place of references.add(ref)
AddReference_push(refs, ref) == Append(refs, ref)

\* references.add(ref.trim())
AddReference(refs, ref) == SetAdd(refs, ref)

RECURSIVE ReferenceLoop(_, _, _)
ReferenceLoop(ms, k, refs) ==
  IF k > Len(ms) THEN refs
  ELSE ReferenceLoop(ms, k + 1, AddReference(refs, RefOf(ms[k])))

extractBiblicalReferences(txt) == ReferenceLoop(Matches(txt), 1, <<>>)

----------------------------------------------------------------------------
(* Text normalizer, slugifier, title-casing                                *)

\* cleanText(text): \r\n to \n, runs of white space to one space, every "- "
\* taken out, trimmed.  (A line holds no \n, so the first replace changes
\* nothing that the second does not.)
collapseWhiteSpace(s) ==
  Compact([p \in 1..Len(s) |->
             IF s[p] \notin WhiteSpace THEN s[p]
             ELSE IF p > 1 /\ s[p - 1] \in WhiteSpace THEN Dropped ELSE " "])

removeHyphenation(s) ==
  Compact([p \in 1..Len(s) |->
             IF s[p] = "-" /\ p < Len(s) /\ s[p + 1] = " " THEN Dropped
             ELSE IF s[p] = " " /\ p > 1 /\ s[p - 1] = "-" THEN Dropped
             ELSE s[p]])

cleanText(s) == trim(removeHyphenation(collapseWhiteSpace(s)))

\* fixOcrErrors(text): the ten literal replacements, in order
OCR_FIXES == <<
  <<<<"C","O","D">>, <<"G","O","D">>>>,
  <<<<"6","O","D">>, <<"G","O","D">>>>,
  <<<<"6","0","0">>, <<"G","o","d">>>>,
  <<<<"C","L","O","R","Y">>, <<"G","L","O","R","Y">>>>,
  <<<<"6","L","O","R","Y">>, <<"G","L","O","R","Y">>>>,
  <<<<"c","o","d">>, <<"g","o","d">>>>,
  <<<<"t","h"," ","e"," ">>, <<"t","h","e"," ">>>>,
  <<<<"h","e"," ","a","v","e","n">>, <<"h","e","a","v","e","n">>>>,
  <<<<" ","j","v","v","h","o","s","e"," ">>, <<" ","w","h","o","s","e"," ">>>>,
  <<<<" ","t","o","g","l","o","r","i","f","y"," ">>, <<" ","t","o"," ","g","l","o","r","i","f","y"," ">>>> >>

RECURSIVE applyFixes(_, _)
applyFixes(s, k) ==
  IF k > Len(OCR_FIXES) THEN s
  ELSE applyFixes(replaceAll(s, OCR_FIXES[k][1], OCR_FIXES[k][2]), k + 1)

fixOcrErrors(s) == applyFixes(s, 1)

\* s.replace(/[^a-z0-9]+/g, '-'): each run of other characters becomes one '-'
slugChars(s) ==
  Compact([p \in 1..Len(s) |->
             IF s[p] \in Lower \cup Digits THEN s[p]
             ELSE IF p > 1 /\ s[p - 1] \notin Lower \cup Digits THEN Dropped ELSE "-"])

\* s.replace(/^-|-$/g, ''): one leading and one trailing '-' taken out
stripEdgeHyphens(s) ==
  LET a == IF s # <<>> /\ s[1] = "-" THEN slice(s, 1) ELSE s
  IN  IF a # <<>> /\ a[Len(a)] = "-" THEN SubSeq(a, 1, Len(a) - 1) ELSE a

ID_MAX == 80

\* generateId(title, source)
generateId(title, source) ==
  substring0(source \o <<"-">> \o stripEdgeHyphens(slugChars(toLowerCase(title))), ID_MAX)

\* s.split(' ').map(w => w.charAt(0) + w.slice(1).toLowerCase()).join(' '):
\* a character that starts a word (the first, or one after a space) is kept
\* and every other character is lower-cased
capitalizeWords(s) ==
  [p \in 1..Len(s) |-> IF p = 1 \/ s[p - 1] = " " THEN s[p] ELSE toLowerChar(s[p])]

\* the same with w.charAt(0).toUpperCase()
titleCaseWords(s) ==
  [p \in 1..Len(s) |-> IF p = 1 \/ s[p - 1] = " " THEN toUpperChar(s[p]) ELSE toLowerChar(s[p])]

\* the sum of the lengths of the buffered lines (contentBuffer.reduce)
RECURSIVE totalLength(_)
totalLength(buffer) ==
  IF buffer = <<>> THEN 0 ELSE Len(buffer[1].text) + totalLength(Tail(buffer))

\* the documents: lines = content.split('\n').map(line => line.trim())
NumLines(doc) == doc.pad + Len(doc.body)
\* lines[i] for a 0-based i; the empty string stands for undefined as well
LineAt(doc, i) ==
  IF i < doc.pad \/ i >= NumLines(doc) THEN <<>> ELSE trim(doc.body[i - doc.pad + 1])

\* the first line at or after i that is not empty once trimmed (lines.length
\* when there is none): where the loop is after its run of "if (!line) continue"
nextNonEmpty(doc, i) ==
  LET from == IF i < doc.pad THEN doc.pad ELSE i
      full == {j \in from..(NumLines(doc) - 1) : LineAt(doc, j) # <<>>}
  IN  IF full = {} THEN NumLines(doc) ELSE MinOf(full)

----------------------------------------------------------------------------
(* parseSchwartzFile: the Source-A segmenter                               *)

CONTENT_SEARCH_FROM_A == 6000
MIN_CONTENT_A == 50
SECTION_MIN_A == 5
SECTION_MAX_A == 60
COMMENTARY_AFTER == 300
SUBTITLE_LOOKAHEAD == 3
MIN_SOURCE_LEN == 2

BOOK_ONE == <<"B","O","O","K"," ","O","N","E">>
OrdinalsLower == {<<"o","n","e">>, <<"t","w","o">>, <<"t","h","r","e","e">>, <<"f","o","u","r">>, <<"f","i","v","e">>, <<"s","i","x">>, <<"s","e","v","e","n">>, <<"e","i","g","h","t">>, <<"n","i","n","e">>, <<"t","e","n">>}
RomanLetters == {"i","v","x","l","c","I","V","X","L","C"}

\* the first i >= 6000 with lines[i] === 'BOOK ONE', 0 when there is none
contentStartA(doc) ==
  LET hits == {i \in CONTENT_SEARCH_FROM_A..(NumLines(doc) - 1) : LineAt(doc, i) = BOOK_ONE}
  IN  IF hits = {} THEN 0 ELSE MinOf(hits)

\* /^\d+$/
isDigitsOnly(line) == line # <<>> /\ \A p \in 1..Len(line) : line[p] \in Digits
\* /^[ivxlc]+$/i
isRomanOnly(line) == line # <<>> /\ \A p \in 1..Len(line) : line[p] \in RomanLetters
\* /^\d+\s+MYTHS OF/
isRunningHeader(line) ==
  LET d == runEnd(line, 1, Digits)
      w == runEnd(line, d, WhiteSpace)
  IN  d > 1 /\ w > d /\ HasAt(line, w, <<"M","Y","T","H","S"," ","O","F">>)
\* the page numbers and headers the loop skips
isNoiseA(line) ==
  \/ isDigitsOnly(line)
  \/ isRomanOnly(line)
  \/ startsWith(line, <<"C","O","N","T","E","N","T","S">>)
  \/ isRunningHeader(line)

\* /^BOOK\s+(ONE|TWO|THREE|FOUR|FIVE|SIX|SEVEN|EIGHT|NINE|TEN)$/i
isBookHeader(line) ==
  LET l == toLowerCase(line)
      w == runEnd(l, 5, WhiteSpace)
  IN  startsWith(l, <<"b","o","o","k">>) /\ w > 5 /\ SubSeq(l, w, Len(l)) \in OrdinalsLower

\* /^MYTHS\s+(OF|ABOUT)/i
isBookSubtitle(line) ==
  LET l == toLowerCase(line)
      w == runEnd(l, 6, WhiteSpace)
  IN  startsWith(l, <<"m","y","t","h","s">>) /\ w > 6 /\ (HasAt(l, w, <<"o","f">>) \/ HasAt(l, w, <<"a","b","o","u","t">>))

\* /^\d+\./
startsNumbered(line) ==
  LET d == runEnd(line, 1, Digits) IN d > 1 /\ d <= Len(line) /\ line[d] = "."

\* /^BOOK\s+/
startsBook(line) == startsWith(line, <<"B","O","O","K">>) /\ Len(line) >= 5 /\ line[5] \in WhiteSpace

isSectionHeader(line, currentBook) ==
  /\ line = toUpperCase(line)
  /\ Len(line) > SECTION_MIN_A
  /\ Len(line) < SECTION_MAX_A
  /\ ~startsNumbered(line)
  /\ ~startsBook(line)
  /\ ~startsWith(toLowerCase(line), <<"s","o","u","r","c","e","s">>)
  /\ ~startsWith(toLowerCase(line), <<"s","t","u","d","i","e","s">>)
  /\ currentBook # <<>>

\* /^(\d+)\.\s+([A-Z][A-Z\s'',\-&?]+)$/ : the start of group 2, 0 when the
\* line does not match
TitleChars == Upper \cup WhiteSpace \cup {"'", ",", "-", "&", "?"}
mythMatch(line) ==
  LET d == runEnd(line, 1, Digits)
      w == runEnd(line, d + 1, WhiteSpace)
  IN  IF /\ d > 1 /\ d <= Len(line) /\ line[d] = "."
         /\ w > d + 1 /\ w < Len(line)
         /\ line[w] \in Upper
         /\ \A p \in (w + 1)..Len(line) : line[p] \in TitleChars
      THEN w ELSE 0

\* /^Sources\s*:?\s*$/i and /^Studies\s*:?\s*$/i
isHeaderWord(line, word) ==
  LET l == toLowerCase(line)
      a == runEnd(l, Len(word) + 1, WhiteSpace)
      b == IF a <= Len(l) /\ l[a] = ":" THEN a + 1 ELSE a
  IN  startsWith(l, word) /\ runEnd(l, b, WhiteSpace) = Len(l) + 1
isSourcesHeader(line) == isHeaderWord(line, <<"s","o","u","r","c","e","s">>)
isStudiesHeader(line) == isHeaderWord(line, <<"s","t","u","d","i","e","s">>)

\* the lead-in phrases of the commentary heuristic (flag i)
LeadIns == {
  <<"t","h","i","s"," ","b","i","b","l","i","c","a","l">>, <<"t","h","i","s"," ","m","y","t","h">>, <<"t","h","i","s"," ","p","a","s","s","a","g","e">>, <<"t","h","i","s"," ","s","t","o","r","y">>, <<"t","h","i","s"," ","l","e","g","e","n","d">>,
  <<"t","h","i","s"," ","v","i","s","i","o","n">>, <<"t","h","i","s"," ","a","c","c","o","u","n","t">>, <<"t","h","i","s"," ","t","e","x","t">>, <<"t","h","i","s"," ","i","s">>,
  <<"h","e","r","e"," ","t","h","e">>, <<"h","e","r","e"," ","g","o","d">>, <<"h","e","r","e"," ","w","e">>,
  <<"i","n"," ","t","h","i","s"," ","m","y","t","h">>, <<"i","n"," ","t","h","i","s"," ","p","a","s","s","a","g","e">>, <<"i","n"," ","t","h","i","s"," ","i","n","t","e","r","p","r","e","t","a","t","i","o","n">>,
  <<"a","c","c","o","r","d","i","n","g"," ","t","o">>, <<"o","n","e"," ","w","a","y"," ","o","f"," ","r","e","a","d","i","n","g">>, <<"a"," ","c","l","o","s","e"," ","v","a","r","i","a","n","t">>, <<"t","h","e"," ","i","d","e","a">>,
  <<"w","h","i","l","e">>, <<"s","o"," ","t","o","o">>, <<"s","o","m","e"," ","s","a","y">>, <<"t","h","e","r","e"," ","a","r","e"," ","m","a","n","y">> }

isCommentaryStart(line, contentBuffer) ==
  /\ totalLength(contentBuffer) > COMMENTARY_AFTER
  /\ \E lead \in LeadIns : startsWith(toLowerCase(line), lead)
  /\ ~includes(line, <<"\"">>)
  /\ ~includes(line, <<"s","a","i","d">>)
  /\ ~includes(line, <<"s","p","o","k","e">>)

\* line.replace(/;/g, ',').split(',').map(s => s.trim()).filter(s => s.length > 2)
IsSourcePart(s) == Len(s) > MIN_SOURCE_LEN
sourceParts(line) ==
  LET commas == [p \in 1..Len(line) |-> IF line[p] = ";" THEN "," ELSE line[p]]
      parts  == split(commas, ",")
  IN  SelectSeq([k \in 1..Len(parts) |-> trim(parts[k])], IsSourcePart)

IsContentLine(l) == l.mode = "content"
IsCommentaryLine(l) == l.mode = "commentary"
Texts(buffer) == [k \in 1..Len(buffer) |-> buffer[k].text]

\* "Save current myth": the buffered lines joined into the two fields, the
\* record pushed when its content is longer than 50 characters
flushA(s) ==
  IF s.currentMyth = <<>> THEN s.myths
  ELSE LET myth == [s.currentMyth[1] EXCEPT
                      !.content = join(Texts(SelectSeq(s.contentBuffer, IsContentLine))),
                      !.commentary = join(Texts(SelectSeq(s.contentBuffer, IsCommentaryLine)))]
       IN  IF Len(myth.content) > MIN_CONTENT_A THEN Append(s.myths, myth) ELSE s.myths

\* the j of the subtitle line after a book header at line i, 0 when none of
\* the next three lines is one
subtitleOffset(doc, i) ==
  LET js == {j \in 1..SUBTITLE_LOOKAHEAD :
               LineAt(doc, i + j) # <<>> /\ isBookSubtitle(fixOcrErrors(LineAt(doc, i + j)))}
  IN  IF js = {} THEN 0 ELSE MinOf(js)

\* currentBook after a book header
bookLabel(doc, i, line) ==
  LET j == subtitleOffset(doc, i)
  IN  IF j = 0 THEN line
      ELSE line \o <<":"," ">> \o capitalizeWords(fixOcrErrors(LineAt(doc, i + j)))

SCHWARTZ == <<"s","c","h","w","a","r","t","z">>

\* the record opened by a numbered title
newMythA(line, currentBook, currentSection) ==
  LET w     == mythMatch(line)
      title == capitalizeWords(trim(SubSeq(line, w, Len(line))))
  IN  [id |-> generateId(title, SCHWARTZ),
       number |-> parseInt(SubSeq(line, 1, runEnd(line, 1, Digits) - 1)),
       title |-> title,
       content |-> <<>>,
       commentary |-> <<>>,
       sources |-> <<>>,
       book |-> currentBook,
       section |-> currentSection,
       sourceWork |-> SCHWARTZ,
       biblicalReferences |-> <<>>,
       themes |-> <<>>]

\* the post-processing map over the pushed records
finalizeA(myth) ==
  LET fullText == myth.title \o <<" ">> \o myth.content \o <<" ">> \o myth.commentary
  IN  [myth EXCEPT
         !.content = cleanText(myth.content),
         !.commentary = cleanText(myth.commentary),
         !.biblicalReferences = extractBiblicalReferences(fullText),
         !.themes = extractThemes(fullText),
         !.sources = SelectSeq(myth.sources, IsSourcePart)]

\* which branch of the loop body a line takes, in the order the code tests them
branchA(rawLine, s) ==
  LET line == fixOcrErrors(rawLine)
  IN  IF rawLine = <<>> THEN "empty"
      ELSE IF isNoiseA(rawLine) THEN "noise"
      ELSE IF isBookHeader(line) THEN "book"
      ELSE IF isSectionHeader(line, s.currentBook) THEN "section"
      ELSE IF mythMatch(line) # 0 THEN "title"
      ELSE IF isSourcesHeader(line) THEN "sources"
      ELSE IF isStudiesHeader(line) THEN "studies"
      ELSE IF s.currentMyth # <<>> /\ s.mode \notin {"skip", "seeking"} THEN "buffer"
      ELSE "ignored"

\* the local variables of parseSchwartzFile when its loop starts at line i
initSegA(i) ==
  [i |-> i,
   currentBook |-> <<>>,
   currentSection |-> <<>>,
   currentMyth |-> <<>>,      \* <<>> is null, <<m>> the record in progress
   contentBuffer |-> <<>>,
   mode |-> "seeking",
   myths |-> <<>>]

\* the line the loop is at, trimmed, and after fixOcrErrors
rawLineA == LineAt(content, seg.i)
lineA == fixOcrErrors(rawLineA)
InLoopA(branch) ==
  /\ pc = "A_loop"
  /\ seg.i < NumLines(content)
  /\ branchA(rawLineA, seg) = branch

\* contentStart === 0: the warning, and the empty list returned
A_NoStartMarker ==
  /\ pc = "A_start"
  /\ contentStartA(content) = 0
  /\ result' = <<>>
  /\ pc' = "A_returned"
  /\ UNCHANGED seg
  /\ UNCHANGED outsideSegmenter

A_Start ==
  /\ pc = "A_start"
  /\ contentStartA(content) # 0
  /\ seg' = initSegA(contentStartA(content))
  /\ pc' = "A_loop"
  /\ UNCHANGED result
  /\ UNCHANGED outsideSegmenter

\* "Skip empty lines": the whole run of them
A_SkipEmpty ==
  /\ InLoopA("empty")
  /\ seg' = [seg EXCEPT !.i = nextNonEmpty(content, @)]
  /\ UNCHANGED <<pc, result>>
  /\ UNCHANGED outsideSegmenter

A_SkipNoise ==
  /\ InLoopA("noise")
  /\ seg' = [seg EXCEPT !.i = @ + 1]
  /\ UNCHANGED <<pc, result>>
  /\ UNCHANGED outsideSegmenter

A_BookHeader ==
  /\ InLoopA("book")
  /\ seg' = [seg EXCEPT
               !.myths = flushA(seg),
               !.currentBook = bookLabel(content, seg.i, lineA),
               !.i = @ + subtitleOffset(content, seg.i) + 1,
               !.currentMyth = <<>>,
               !.contentBuffer = <<>>,
               !.mode = "seeking"]
  /\ UNCHANGED <<pc, result>>
  /\ UNCHANGED outsideSegmenter

\* the same with the record in progress left open
A_SectionHeader_keepsRecord ==
  /\ InLoopA("section")
  /\ seg' = [seg EXCEPT
               !.myths = flushA(seg),
               !.currentSection = titleCaseWords(lineA),
               !.i = @ + 1,
               !.mode = "seeking"]
  /\ UNCHANGED <<pc, result>>
  /\ UNCHANGED outsideSegmenter

A_SectionHeader ==
  /\ InLoopA("section")
  /\ seg' = [seg EXCEPT
               !.myths = flushA(seg),
               !.currentSection = titleCaseWords(lineA),
               !.i = @ + 1,
               !.currentMyth = <<>>,
               !.contentBuffer = <<>>,
               !.mode = "seeking"]
  /\ UNCHANGED <<pc, result>>
  /\ UNCHANGED outsideSegmenter

A_MythTitle ==
  /\ InLoopA("title")
  /\ seg' = [seg EXCEPT
               !.myths = flushA(seg),
               !.currentMyth = <<newMythA(lineA, seg.currentBook, seg.currentSection)>>,
               !.i = @ + 1,
               !.contentBuffer = <<>>,
               !.mode = "content"]
  /\ UNCHANGED <<pc, result>>
  /\ UNCHANGED outsideSegmenter

A_SourcesHeader ==
  /\ InLoopA("sources")
  /\ seg' = [seg EXCEPT !.mode = "sources", !.i = @ + 1]
  /\ UNCHANGED <<pc, result>>
  /\ UNCHANGED outsideSegmenter

A_StudiesHeader ==
  /\ InLoopA("studies")
  /\ seg' = [seg EXCEPT !.mode = "skip", !.i = @ + 1]
  /\ UNCHANGED <<pc, result>>
  /\ UNCHANGED outsideSegmenter

\* the same without the test of the length buffered so far
bufferMode_anyLength(s, line) ==
  IF /\ s.mode = "content" /\ Len(s.contentBuffer) > 0
     /\ \E lead \in LeadIns : startsWith(toLowerCase(line), lead)
     /\ ~includes(line, <<"\"">>) /\ ~includes(line, <<"s","a","i","d">>) /\ ~includes(line, <<"s","p","o","k","e">>)
  THEN "commentary" ELSE s.mode

\* the mode a buffered line is stored under
bufferMode(s, line) ==
  IF s.mode = "content" /\ Len(s.contentBuffer) > 0 /\ isCommentaryStart(line, s.contentBuffer)
  THEN "commentary" ELSE s.mode

\* "Process content based on mode"
A_BufferLine ==
  /\ InLoopA("buffer")
  /\ seg' = IF seg.mode = "sources"
            THEN [seg EXCEPT !.currentMyth[1].sources = @ \o sourceParts(lineA),
                             !.i = @ + 1]
            ELSE [seg EXCEPT !.mode = bufferMode(seg, lineA),
                             !.contentBuffer = Append(@, [mode |-> bufferMode(seg, lineA), text |-> lineA]),
                             !.i = @ + 1]
  /\ UNCHANGED <<pc, result>>
  /\ UNCHANGED outsideSegmenter

\* a line outside any record, or in mode skip or seeking
A_IgnoreLine ==
  /\ InLoopA("ignored")
  /\ seg' = [seg EXCEPT !.i = @ + 1]
  /\ UNCHANGED <<pc, result>>
  /\ UNCHANGED outsideSegmenter

\* "Save last myth" and "Post-process myths": the return value
A_Finish ==
  /\ pc = "A_loop"
  /\ seg.i >= NumLines(content)
  /\ seg' = [seg EXCEPT !.myths = flushA(seg)]
  /\ result' = [k \in 1..Len(flushA(seg)) |-> finalizeA(flushA(seg)[k])]
  /\ pc' = "A_returned"
  /\ UNCHANGED outsideSegmenter

NextA ==
  \/ A_NoStartMarker \/ A_Start
  \/ A_SkipEmpty \/ A_SkipNoise
  \/ A_BookHeader \/ A_SectionHeader \/ A_MythTitle
  \/ A_SourcesHeader \/ A_StudiesHeader
  \/ A_BufferLine \/ A_IgnoreLine
  \/ A_Finish

----------------------------------------------------------------------------
(* parseGinzbergFile: the Source-B segmenter                               *)

CONTENT_SEARCH_FROM_B == 400
MIN_CONTENT_B == 100
SECTION_MIN_B == 5
SECTION_MAX_B == 80
CHAPTER_TITLE_MIN == 3
CHAPTER_LOOKAHEAD == 5

GINZBERG == <<"g","i","n","z","b","e","r","g">>
CREATION_TITLE == <<"T","H","E"," ","C","R","E","A","T","I","O","N"," ","O","F"," ","T","H","E"," ","W","O","R","L","D">>
JOSEPH_TITLE == <<"J","O","S","E","P","H">>

\* romanPattern /^(I{1,3}V?|VI{0,3})\.?\s*$/ on a trimmed line
RomanNumerals == {<<"I">>, <<"I","I">>, <<"I","I","I">>, <<"I","V">>, <<"I","I","V">>, <<"I","I","I","V">>, <<"V">>, <<"V","I">>, <<"V","I","I">>, <<"V","I","I","I">>}
romanPattern(line) ==
  \/ line \in RomanNumerals
  \/ Len(line) > 1 /\ line[Len(line)] = "." /\ SubSeq(line, 1, Len(line) - 1) \in RomanNumerals

\* line.replace('.', '').trim() of a line that matches romanPattern
romanOf(line) == IF line[Len(line)] = "." THEN SubSeq(line, 1, Len(line) - 1) ELSE line

\* the loop that looks for the first chapter marker from line 400 on; 0 when
\* it finds none
contentStartB(doc) ==
  LET isMarker(i) ==
        /\ LineAt(doc, i) \in {<<"I">>, <<"I",".">>}
        /\ LET nextLine == toUpperCase(LineAt(doc, i + 1))
           IN  includes(nextLine, <<"C","R","E","A","T","I","O","N">>) \/ includes(nextLine, <<"J","O","S","E","P","H">>)
      isTitle(i) == LineAt(doc, i) \in {CREATION_TITLE, JOSEPH_TITLE}
      hits == {i \in CONTENT_SEARCH_FROM_B..(NumLines(doc) - 1) : isMarker(i) \/ isTitle(i)}
  IN  IF hits = {} THEN 0
      ELSE IF isMarker(MinOf(hits)) THEN MinOf(hits) ELSE MinOf(hits) - 1

\* a line that can be a chapter title
isChapterTitle(line) ==
  /\ line # <<>>
  /\ line = toUpperCase(line)
  /\ Len(line) > CHAPTER_TITLE_MIN
  /\ ~romanPattern(line)

\* the line j of the chapter title after a Roman numeral at line i (one of the
\* next four lines), -1 when there is none
chapterTitleAt(doc, i) ==
  LET last == (IF i + CHAPTER_LOOKAHEAD < NumLines(doc) THEN i + CHAPTER_LOOKAHEAD ELSE NumLines(doc)) - 1
      js   == {j \in (i + 1)..last : isChapterTitle(LineAt(doc, j))}
  IN  IF js = {} THEN -1 ELSE MinOf(js)

isSectionTitleB(line, currentChapter) ==
  /\ line = toUpperCase(line)
  /\ Len(line) > SECTION_MIN_B
  /\ Len(line) < SECTION_MAX_B
  /\ ~romanPattern(line)
  /\ currentChapter # <<>>
  /\ ~includes(line, <<"*","*","*">>)

\* line.replace(/\[\d+\]/g, ''): every '[' digits ']' taken out
stripFootnotes(s) ==
  LET closes(q) == runEnd(s, q + 1, Digits)
      isRef(q)  == s[q] = "[" /\ closes(q) > q + 1 /\ closes(q) <= Len(s) /\ s[closes(q)] = "]"
  IN  Compact([p \in 1..Len(s) |->
                 IF \E q \in 1..p : isRef(q) /\ p <= closes(q) THEN Dropped ELSE s[p]])

volumeTag(v) == <<"v", CHOOSE c \in Digits : DigitValue[c] = v>>

\* the record opened by a section title
newMythB(line, v, currentChapter) ==
  LET title == capitalizeWords(line)
  IN  [id |-> generateId(volumeTag(v) \o <<"-">> \o title, GINZBERG),
       title |-> title,
       content |-> <<>>,
       commentary |-> <<>>,
       sources |-> <<>>,
       book |-> currentChapter,
       section |-> <<>>,
       sourceWork |-> GINZBERG \o <<"-">> \o volumeTag(v),
       biblicalReferences |-> <<>>,
       themes |-> <<>>]

\* "Save current myth": pushed when some line was buffered and the joined
\* content is longer than 100 characters
flushB(s) ==
  IF s.currentMyth = <<>> \/ s.contentBuffer = <<>> THEN s.myths
  ELSE LET myth == [s.currentMyth[1] EXCEPT !.content = join(s.contentBuffer)]
       IN  IF Len(myth.content) > MIN_CONTENT_B THEN Append(s.myths, myth) ELSE s.myths

\* the post-processing map of the other source, title included
finalizeB_withTitle(myth) ==
  LET fullText == myth.title \o <<" ">> \o myth.content
  IN  [myth EXCEPT
         !.content = cleanText(myth.content),
         !.biblicalReferences = extractBiblicalReferences(fullText),
         !.themes = extractThemes(fullText)]

\* the post-processing map
finalizeB(myth) ==
  [myth EXCEPT
     !.content = cleanText(myth.content),
     !.biblicalReferences = extractBiblicalReferences(myth.content),
     !.themes = extractThemes(myth.content)]

branchB(line, s) ==
  IF line = <<>> THEN "empty"
  ELSE IF isDigitsOnly(line) THEN "digits"
  ELSE IF romanPattern(line) THEN "chapter"
  ELSE IF isSectionTitleB(line, s.currentChapter) THEN "section"
  ELSE IF s.currentMyth # <<>> THEN "accumulate"
  ELSE "ignored"

\* the list of records kept by the module and not by the call
initSegB_sharedMyths(i) ==
  [i |-> i,
   currentChapter |-> <<>>,
   currentMyth |-> <<>>,
   contentBuffer |-> <<>>,
   myths |-> IF "myths" \in DOMAIN seg THEN seg.myths ELSE <<>>]

\* the local variables of parseGinzbergFile when its loop starts at line i
initSegB(i) ==
  [i |-> i,
   currentChapter |-> <<>>,
   currentMyth |-> <<>>,
   contentBuffer |-> <<>>,
   myths |-> <<>>]

lineB == LineAt(content, seg.i)
InLoopB(branch) ==
  /\ pc = "B_loop"
  /\ seg.i < NumLines(content)
  /\ branchB(lineB, seg) = branch

\* "Find content start": the loop then starts there, at 0 when no marker was found
B_Start ==
  /\ pc = "B_start"
  /\ seg' = initSegB(contentStartB(content))
  /\ pc' = "B_loop"
  /\ UNCHANGED result
  /\ UNCHANGED outsideSegmenter

\* "Skip empty lines": the whole run of them
B_SkipEmpty ==
  /\ InLoopB("empty")
  /\ seg' = [seg EXCEPT !.i = nextNonEmpty(content, @)]
  /\ UNCHANGED <<pc, result>>
  /\ UNCHANGED outsideSegmenter

B_SkipDigits ==
  /\ InLoopB("digits")
  /\ seg' = [seg EXCEPT !.i = @ + 1]
  /\ UNCHANGED <<pc, result>>
  /\ UNCHANGED outsideSegmenter

\* "Detect chapter headers (Roman numerals)"
B_Chapter ==
  /\ InLoopB("chapter")
  /\ LET j == chapterTitleAt(content, seg.i)
     IN  seg' = [seg EXCEPT
                   !.myths = flushB(seg),
                   !.currentChapter =
                      IF j = -1 THEN @
                      ELSE romanOf(lineB) \o <<"."," ">> \o capitalizeWords(LineAt(content, j)),
                   !.i = (IF j = -1 THEN @ ELSE j) + 1,
                   !.currentMyth = <<>>,
                   !.contentBuffer = <<>>]
  /\ UNCHANGED <<pc, result>>
  /\ UNCHANGED outsideSegmenter

\* "Detect section headers (ALL CAPS)"
B_Section ==
  /\ InLoopB("section")
  /\ seg' = [seg EXCEPT
               !.myths = flushB(seg),
               !.currentMyth = <<newMythB(lineB, volume, seg.currentChapter)>>,
               !.contentBuffer = <<>>,
               !.i = @ + 1]
  /\ UNCHANGED <<pc, result>>
  /\ UNCHANGED outsideSegmenter

\* "Accumulate content"
B_Accumulate ==
  /\ InLoopB("accumulate")
  /\ seg' = [seg EXCEPT
               !.contentBuffer =
                  IF stripFootnotes(lineB) # <<>> THEN Append(@, stripFootnotes(lineB)) ELSE @,
               !.i = @ + 1]
  /\ UNCHANGED <<pc, result>>
  /\ UNCHANGED outsideSegmenter

\* a line before the first section title
B_IgnoreLine ==
  /\ InLoopB("ignored")
  /\ seg' = [seg EXCEPT !.i = @ + 1]
  /\ UNCHANGED <<pc, result>>
  /\ UNCHANGED outsideSegmenter

\* "Save last myth" and "Post-process myths": the return value
B_Finish ==
  /\ pc = "B_loop"
  /\ seg.i >= NumLines(content)
  /\ seg' = [seg EXCEPT !.myths = flushB(seg)]
  /\ result' = [k \in 1..Len(flushB(seg)) |-> finalizeB(flushB(seg)[k])]
  /\ pc' = "B_returned"
  /\ UNCHANGED outsideSegmenter

NextB ==
  \/ B_Start
  \/ B_SkipEmpty \/ B_SkipDigits
  \/ B_Chapter \/ B_Section
  \/ B_Accumulate \/ B_IgnoreLine
  \/ B_Finish

----------------------------------------------------------------------------
(* main: the three files segmented in turn, the statistics, the filter     *)
(* vocabularies and the database written to data/myths.json                *)

\* a JavaScript object with string keys is a sequence of [key, value]
\* entries in insertion order, the order Object.keys lists them in
ObjectKeys(obj) == [k \in 1..Len(obj) |-> obj[k].key]
HasKey(obj, key) == \E k \in 1..Len(obj) : obj[k].key = key
\* obj[key] || 0
ValueOrZero(obj, key) ==
  IF HasKey(obj, key)
    THEN obj[CHOOSE k \in 1..Len(obj) : obj[k].key = key].value
    ELSE 0
\* obj[key] = (obj[key] || 0) + 1
Increment_reset(obj, key) ==
  IF HasKey(obj, key)
    THEN [k \in 1..Len(obj) |-> IF obj[k].key = key THEN [key |-> key, value |-> 1] ELSE obj[k]]
    ELSE Append(obj, [key |-> key, value |-> 1])
Increment(obj, key) ==
  IF HasKey(obj, key)
    THEN [k \in 1..Len(obj) |->
            IF obj[k].key = key THEN [key |-> key, value |-> ValueOrZero(obj, key) + 1] ELSE obj[k]]
    ELSE Append(obj, [key |-> key, value |-> ValueOrZero(obj, key) + 1])

\* the UTF-16 code unit of a character
AsciiPrintable ==
  <<" ","!">> \o <<"\"">> \o <<"#","$","%","&","'","(",")","*","+",",","-",".","/","0","1","2","3","4","5","6","7","8","9",":",";","<","=",">","?","@">>
  \o <<"A","B","C","D","E","F","G","H","I","J","K","L","M","N","O","P","Q","R","S","T","U","V","W","X","Y","Z","[">> \o <<"\\">>
  \o <<"]","^","_">> \o <<"GRAVE ACCENT">> \o <<"a","b","c","d","e","f","g","h","i","j","k","l","m","n","o","p","q","r","s","t","u","v","w","x","y","z","{","|","}","~">>
charCode(c) ==
  IF c = "\t" THEN 9
  ELSE IF c = "\r" THEN 13
  ELSE IF c = EnDash THEN 8211
  ELSE 31 + (CHOOSE k \in 1..Len(AsciiPrintable) : AsciiPrintable[k] = c)

\* a < b for two strings, compared code unit by code unit
stringLess(a, b) ==
  \E p \in 1..Len(b) :
    /\ \A q \in 1..(p - 1) : q <= Len(a) /\ a[q] = b[q]
    /\ (p > Len(a) \/ charCode(a[p]) < charCode(b[p]))

\* myth.themes.forEach(theme => stats.themes[theme] = ... + 1)
RECURSIVE countThemesOf(_, _, _)
countThemesOf(obj, mythThemes, k) ==
  IF k > Len(mythThemes) THEN obj
  ELSE countThemesOf(Increment(obj, mythThemes[k]), mythThemes, k + 1)

\* allMyths.forEach: the themes and, when it is not empty, the book of each myth
RECURSIVE countAll(_, _, _)
countAll(stats, allMyths, m) ==
  IF m > Len(allMyths) THEN stats
  ELSE LET myth == allMyths[m]
           counted == [stats EXCEPT !.themes = countThemesOf(@, myth.themes, 1)]
       IN  countAll(IF myth.book # <<>>
                      THEN [counted EXCEPT !.books = Increment(@, myth.book)]
                      ELSE counted,
                    allMyths, m + 1)

\* [...schwartzMyths, ...ginzberg1Myths, ...ginzberg2Myths]
combine(a, b1, b2) == a \o b1 \o b2

makeStats(a, b1, b2) ==
  countAll([total |-> Len(combine(a, b1, b2)),
            bySources |-> [schwartz |-> Len(a), ginzberg_v1 |-> Len(b1), ginzberg_v2 |-> Len(b2)],
            themes |-> <<>>,
            books |-> <<>>],
           combine(a, b1, b2), 1)

\* Object.keys(obj).sort((a, b) => obj[b] - obj[a]): the sort is stable, so
\* keys of equal count stay in insertion order
sortByCount_unsorted(obj) == ObjectKeys(obj)
sortByCount(obj) ==
  LET before(j, k) == obj[j].value > obj[k].value \/ (obj[j].value = obj[k].value /\ j < k)
      rank(k) == 1 + Cardinality({j \in 1..Len(obj) : before(j, k)})
  IN  [r \in 1..Len(obj) |-> obj[CHOOSE k \in 1..Len(obj) : rank(k) = r].key]

\* Object.keys(obj).sort(): by code units
sortKeys(obj) ==
  LET rank(k) == 1 + Cardinality({j \in 1..Len(obj) : stringLess(obj[j].key, obj[k].key)})
  IN  [r \in 1..Len(obj) |-> obj[CHOOSE k \in 1..Len(obj) : rank(k) = r].key]

SOURCE_IDS == <<"schwartz", "ginzberg-v1", "ginzberg-v2">>
VERSION == "1.0.0"

makeFilterOptions_taxonomy(stats) ==
  [sources |-> SOURCE_IDS,
   themes |-> [t \in 1..Len(THEME_KEYWORDS) |-> THEME_KEYWORDS[t].theme],
   books |-> sortKeys(stats.books)]
makeFilterOptions(stats) ==
  [sources |-> SOURCE_IDS,
   themes |-> sortByCount(stats.themes),
   books |-> sortKeys(stats.books)]

makeDatabase(a, b1, b2, now) ==
  [metadata |-> [generated |-> now,
                 version |-> VERSION,
                 stats |-> makeStats(a, b1, b2),
                 filterOptions |-> makeFilterOptions(makeStats(a, b1, b2))],
   myths |-> combine(a, b1, b2)]

\* the clock new Date() reads
MaxClock == 2
Clock == 1..MaxClock

\* readFileSync(schwartzPath) and the call of parseSchwartzFile
M_ParseSchwartz ==
  /\ pc = "main"
  /\ files.schwartz # Missing
  /\ content' = files.schwartz
  /\ volume' = 0
  /\ pc' = "A_start"
  /\ UNCHANGED <<seg, result, annotatorVars, browserVars, mainVars>>

\* parseSchwartzFile has returned; readFileSync(ginzberg1Path) and the call
\* of parseGinzbergFile(ginzberg1Content, 1)
M_ParseGinzberg1 ==
  /\ pc = "A_returned"
  /\ files.ginzberg1 # Missing
  /\ schwartzMyths' = result
  /\ content' = files.ginzberg1
  /\ volume' = 1
  /\ pc' = "B_start"
  /\ UNCHANGED <<seg, result, annotatorVars, browserVars, files, ginzberg1Myths, ginzberg2Myths,
                 database, output, previous, runs, process>>

M_ParseGinzberg2 ==
  /\ pc = "B_returned"
  /\ volume = 1
  /\ files.ginzberg2 # Missing
  /\ ginzberg1Myths' = result
  /\ content' = files.ginzberg2
  /\ volume' = 2
  /\ pc' = "B_start"
  /\ UNCHANGED <<seg, result, annotatorVars, browserVars, files, schwartzMyths, ginzberg2Myths,
                 database, output, previous, runs, process>>

\* "Combine all myths", "Create summary statistics", "Build filter options"
\* and the database object
M_Aggregate ==
  /\ pc = "B_returned"
  /\ volume = 2
  /\ ginzberg2Myths' = result
  /\ \E now \in Clock :
       database' = makeDatabase(schwartzMyths, ginzberg1Myths, result, now)
  /\ pc' = "built"
  /\ UNCHANGED <<content, volume, seg, result, annotatorVars, browserVars, files, schwartzMyths,
                 ginzberg1Myths, output, previous, runs, process>>

\* fs.writeFileSync(outputPath, JSON.stringify(database, null, 2))
M_Write ==
  /\ pc = "built"
  /\ output' = <<database>>
  /\ process' = Exited(0, <<>>)
  /\ pc' = "done"
  /\ UNCHANGED <<content, volume, seg, result, annotatorVars, browserVars, files, schwartzMyths,
                 ginzberg1Myths, ginzberg2Myths, database, previous, runs>>

\* the program started again, after the files may have been edited
MaxRuns == 2
M_Rerun(docsA, docsB) ==
  /\ pc = "done"
  /\ runs < MaxRuns
  /\ previous' = <<[files |-> files,
                    schwartzMyths |-> schwartzMyths,
                    ginzberg1Myths |-> ginzberg1Myths,
                    ginzberg2Myths |-> ginzberg2Myths,
                    database |-> database]>>
  /\ \/ files' = files
     \/ \E d \in docsA : files' = [files EXCEPT !.schwartz = d]
     \/ \E f \in {"ginzberg1", "ginzberg2"}, d \in docsB : files' = [files EXCEPT ![f] = d]
  /\ runs' = runs + 1
  /\ pc' = "main"
  /\ content' = NoDoc
  /\ volume' = 0
  /\ seg' = NoSeg
  /\ result' = <<>>
  /\ schwartzMyths' = <<>>
  /\ ginzberg1Myths' = <<>>
  /\ ginzberg2Myths' = <<>>
  /\ database' = <<>>
  /\ process' = Running
  /\ UNCHANGED <<output, annotatorVars, browserVars>>

\* the state in which main starts on the files of one of the given sets
InitMain(docsA, docsB) ==
  /\ pc = "main"
  /\ files \in [schwartz : docsA, ginzberg1 : docsB, ginzberg2 : docsB]
  /\ content = NoDoc
  /\ volume = 0
  /\ seg = NoSeg
  /\ result = <<>>
  /\ text = <<>>
  /\ references = <<>>
  /\ themes = <<>>
  /\ schwartzMyths = <<>>
  /\ ginzberg1Myths = <<>>
  /\ ginzberg2Myths = <<>>
  /\ database = <<>>
  /\ output = <<>>
  /\ previous = <<>>
  /\ runs = 1
  /\ process = Running
  /\ BrowserIdle

\* readFileSync throws (ENOENT): main's promise is rejected, the handler of
\* main().catch(console.error) prints the error and the process ends with
\* nothing left to do, so with exit status 0
ENOENT == <<"E","r","r","o","r",":"," ","E","N","O","E","N","T",":"," ","n","o"," ","s","u","c","h"," ","f","i","l","e"," ","o","r"," ","d","i","r","e","c","t","o","r","y">>
M_SchwartzUnreadable ==
  /\ pc = "main"
  /\ files.schwartz = Missing
  /\ process' = Exited(0, ENOENT)
  /\ pc' = "failed"
  /\ UNCHANGED <<content, volume, seg, result, annotatorVars, browserVars, files, schwartzMyths,
                 ginzberg1Myths, ginzberg2Myths, database, output, previous, runs>>

M_Ginzberg1Unreadable ==
  /\ pc = "A_returned"
  /\ files.ginzberg1 = Missing
  /\ schwartzMyths' = result
  /\ process' = Exited(0, ENOENT)
  /\ pc' = "failed"
  /\ UNCHANGED <<content, volume, seg, result, annotatorVars, browserVars, files,
                 ginzberg1Myths, ginzberg2Myths, database, output, previous, runs>>

M_Ginzberg2Unreadable ==
  /\ pc = "B_returned"
  /\ volume = 1
  /\ files.ginzberg2 = Missing
  /\ ginzberg1Myths' = result
  /\ process' = Exited(0, ENOENT)
  /\ pc' = "failed"
  /\ UNCHANGED <<content, volume, seg, result, annotatorVars, browserVars, files, schwartzMyths,
                 ginzberg2Myths, database, output, previous, runs>>

MainFailure == M_SchwartzUnreadable \/ M_Ginzberg1Unreadable \/ M_Ginzberg2Unreadable

MainStep ==
  \/ M_ParseSchwartz \/ M_ParseGinzberg1 \/ M_ParseGinzberg2
  \/ M_Aggregate \/ M_Write
----------------------------------------------------------------------------
(* SpecText: the two annotators applied to bounded texts                   *)

MaxTokens == 3

\* the pieces the input texts are made of
TextTokens == {
  <<"G","e","n","e","s","i","s"," ","3",":","1","4","-","1","5"," ">>,
  <<"G","e","n","."," ","1",":","1"," ">>,
  <<"g","e","n","e","s","i","s"," ","3"," ">>,
  <<"Z","o","h","a","r">>,
  <<"T","h","e"," ","A","n","g","e","l"," ","c","r","e","a","t","e","d"," ">>,
  <<"I","s","a","i","a","h",":","6",EnDash,"8"," ">>,
  <<"J","o","b"," ","3","-","5",";"," ">>,
  <<" ","a","n","d"," ">> }

\* the texts of at most n pieces
RECURSIVE TextsUpTo(_)
TextsUpTo(n) ==
  IF n = 0 THEN {<<>>}
  ELSE TextsUpTo(n - 1) \cup {t \o tok : t \in TextsUpTo(n - 1), tok \in TextTokens}

InitText ==
  /\ pc = "text"
  /\ text \in TextsUpTo(MaxTokens)
  /\ references = <<>>
  /\ themes = <<>>
  /\ content = NoDoc
  /\ volume = 0
  /\ seg = NoSeg
  /\ result = <<>>
  /\ MainIdle

\* the two calls of the record finalizer on its input text
Annotate ==
  /\ pc = "text"
  /\ references' = extractBiblicalReferences(text)
  /\ themes' = extractThemes(text)
  /\ pc' = "annotated"
  /\ UNCHANGED <<text, content, volume, seg, result, mainVars, browserVars>>

NextText == Annotate

SpecText == InitText /\ [][NextText]_vars

----------------------------------------------------------------------------
(* Claims about the annotators                                             *)

NoDuplicates(s) == \A a, b \in 1..Len(s) : s[a] = s[b] => a = b
FirstIndex(s, x) == MinOf({k \in 1..Len(s) : s[k] = x})
Citations(txt) == LET ms == Matches(txt) IN [k \in 1..Len(ms) |-> RefOf(ms[k])]
ThemeIds == {THEME_KEYWORDS[t].theme : t \in 1..Len(THEME_KEYWORDS)}

\* C4: extractBiblicalReferences returns the distinct citation strings in the
\* order of their first occurrence, no string twice, and the empty list when
\* nothing matches; extractThemes returns no theme twice.
C4_Deduplicated ==
  pc = "annotated" =>
    LET cites == Citations(text)
    IN  /\ NoDuplicates(references)
        /\ Range(references) = Range(cites)
        /\ \A a, b \in 1..Len(references) :
             a < b => FirstIndex(cites, references[a]) < FirstIndex(cites, references[b])
        /\ (Len(cites) = 0 => references = <<>>)
        /\ NoDuplicates(themes)

\* a text whose pattern matches repeat a citation: more matches than
\* references, and at least two distinct references
C4_Witness ==
  /\ pc = "annotated"
  /\ Len(references) >= 2
  /\ Len(Matches(text)) > Len(references)

\* C5 as the claim states it: the book name with a trailing period removed,
\* then ' ' chapter, ':' verse and '-' endverse, each when it was matched
StripTrailingPeriod(s) ==
  IF s # <<>> /\ s[Len(s)] = "." THEN SubSeq(s, 1, Len(s) - 1) ELSE s

ClaimedCitation(m) ==
  StripTrailingPeriod(m.m1)
    \o (IF m.m2 # <<>> THEN <<" ">> \o m.m2 ELSE <<>>)
    \o (IF m.m3 # <<>> THEN <<":">> \o m.m3 ELSE <<>>)
    \o (IF m.m4 # <<>> THEN <<"-">> \o m.m4 ELSE <<>>)

\* C5: for each match of the citation pattern the string added is the book
\* name without its abbreviation period, followed by the chapter, ':' verse
\* and '-' endverse that were matched.
C5_CanonicalCitation ==
  pc = "annotated" =>
    LET ms == Matches(text)
    IN  \A k \in 1..Len(ms) : ClaimedCitation(ms[k]) \in Range(references)

\* C6: extractThemes returns only identifiers of the taxonomy, and a theme is
\* returned exactly when one of its keywords occurs in the lower-cased text.
C6_ThemesIffKeyword ==
  pc = "annotated" =>
    /\ Range(themes) \subseteq ThemeIds
    /\ \A t \in 1..Len(THEME_KEYWORDS) :
         (THEME_KEYWORDS[t].theme \in Range(themes))
           <=> \E k \in 1..Len(THEME_KEYWORDS[t].keywords) :
                 includes(toLowerCase(text), THEME_KEYWORDS[t].keywords[k])

\* a text tagged "angels" only because of lower-casing, and not tagged "hell"
C6_Witness ==
  /\ pc = "annotated"
  /\ "angels" \in Range(themes)
  /\ ~includes(text, <<"a","n","g","e","l">>)
  /\ "hell" \notin Range(themes)

----------------------------------------------------------------------------
(* SpecA: parseSchwartzFile stepped line by line over bounded documents    *)

MaxLinesA == 3

A_TITLE == <<"1","."," ","T","H","E"," ","F","I","R","S","T"," ","L","I","G","H","T">>
\* 51 characters, 49 once cleanText has joined the hyphenated word
A_HYPHENATED == <<"T","h","e"," ","a","n","g","e","l"," ","w","e","n","t"," ","u","p"," ","t","o"," ","h","e","a","-"," ","v","e","n",","," ","a","s"," ","I","s","a","i","a","h"," ","6",":","1"," ","t","e","l","l","s",".">>
A_PAGE == <<"1","2">>
A_SECTION == <<"M","Y","T","H","S"," ","O","F"," ","C","R","E","A","T","I","O","N">>
A_BOOK_TWO == <<"B","O","O","K"," ","T","W","O">>
A_SOURCES == <<"S","o","u","r","c","e","s",":">>
A_STUDIES == <<"S","t","u","d","i","e","s">>
A_BLANK == <<>>
M_SECTION == <<"T","H","E"," ","S","E","V","E","N"," ","H","E","A","V","E","N","S">>
M_SOURCE_LINE == <<"M","i","d","r","a","s","h"," ","R","a","b","b","a","h",","," ","Z","o","h","a","r">>
M_STUDY_LINE == <<"G","i","n","z","b","e","r","g",","," ","L","e","g","e","n","d","s"," ","1",":","5">>
M_LIGHT == <<"G","o","d"," ","c","r","e","a","t","e","d"," ","t","h","e"," ","a","n","g","e","l","s"," ","o","n"," ","t","h","e"," ","f","i","r","s","t"," ","d","a","y",","," ","a","n","d"," ","t","h","e","y"," ","s","a","n","g"," ","t","o"," ","H","i","m",".">>
LinesA == {A_TITLE, A_HYPHENATED, A_PAGE, A_SECTION, A_BOOK_TWO, A_SOURCES, A_STUDIES, A_BLANK, M_SECTION}

\* the input block of the specification's example
EX_SUBTITLE == <<"M","Y","T","H","S"," ","O","F"," ","G","O","D">>
EX_NARRATIVE == <<"I","n"," ","t","h","e"," ","b","e","g","i","n","n","i","n","g"," ","t","h","e","r","e"," ","w","a","s"," ","d","a","r","k","n","e","s","s",","," ","a","n","d"," ","G","o","d"," ","s","a","i","d"," ","l","e","t"," ","t","h","e","r","e"," ","b","e"," ","l","i","g","h","t",","," ","a","n","d"," ","t","h","e","r","e"," ","w","a","s"," ","l","i","g","h","t"," ","a","c","r","o","s","s"," ","t","h","e"," ","f","i","r","m","a","m","e","n","t","."," ","M","a","n","y"," ","a","g","e","s"," ","p","a","s","s","e","d"," ","b","e","f","o","r","e"," ","t","h","e"," ","f","i","r","s","t"," ","d","a","y","'","s"," ","l","i","g","h","t"," ","f","a","d","e","d"," ","i","n","t","o"," ","m","e","m","o","r","y",","," ","a","n","d"," ","s","c","h","o","l","a","r","s"," ","s","t","i","l","l"," ","d","e","b","a","t","e"," ","i","t","s"," ","n","a","t","u","r","e"," ","a","t"," ","l","e","n","g","t","h"," ","a","c","r","o","s","s"," ","m","a","n","y"," ","a"," ","l","o","n","g"," ","p","a","g","e",".">>
EX_ANALYSIS == <<"T","h","i","s"," ","m","y","t","h"," ","i","l","l","u","s","t","r","a","t","e","s"," ","t","h","e"," ","p","r","i","m","a","c","y"," ","o","f"," ","l","i","g","h","t"," ","i","n"," ","c","r","e","a","t","i","o","n"," ","t","h","e","o","l","o","g","y",".">>
EX_SOURCE_LINE == <<"M","i","d","r","a","s","h"," ","R","a","b","b","a","h",","," ","Z","o","h","a","r">>
ExampleBlock == <<BOOK_ONE, EX_SUBTITLE, A_TITLE, EX_NARRATIVE, EX_ANALYSIS, A_SOURCES, EX_SOURCE_LINE>>

\* a myth of 310 characters, then an analytical sentence and one that quotes
EX_SAID == <<"T","h","i","s"," ","i","s"," ","w","h","a","t"," ","t","h","e"," ","s","a","g","e","s"," ","s","a","i","d"," ","o","f"," ","i","t",".">>
CommentaryBlock ==
  <<BOOK_ONE, A_TITLE, EX_NARRATIVE, M_LIGHT, EX_ANALYSIS, EX_SAID, A_SOURCES, EX_SOURCE_LINE>>
\* the same with the two sentences in the other order
QuotedBlock == <<BOOK_ONE, A_TITLE, EX_NARRATIVE, M_LIGHT, EX_SAID, EX_ANALYSIS>>
\* a myth with its studies before its sources
StudiesBlock == <<BOOK_ONE, A_TITLE, M_LIGHT, A_STUDIES, M_STUDY_LINE, A_SOURCES, M_SOURCE_LINE>>

\* an upper-case line that starts with BOOK and is no book header
A_BOOK_OF == <<"B","O","O","K"," ","O","F"," ","R","A","Z","I","E","L">>
\* a myth closed by a section header, a line under that header, and a line
\* that starts with BOOK
SectionBlock == <<BOOK_ONE, A_TITLE, M_LIGHT, M_SECTION, M_LIGHT, A_BOOK_OF>>

\* BOOK ONE and up to MaxLinesA lines after it, behind 6000 blank lines or at
\* the top of the file, and the example block behind 6000 blank lines
DocsA ==
  {[pad |-> p, body |-> <<BOOK_ONE>> \o b] :
      p \in {0, CONTENT_SEARCH_FROM_A}, b \in SeqsUpTo(LinesA, MaxLinesA)}
  \cup {[pad |-> CONTENT_SEARCH_FROM_A, body |-> b] :
          b \in {ExampleBlock, CommentaryBlock, QuotedBlock, StudiesBlock, SectionBlock}}

InitA ==
  /\ pc = "A_start"
  /\ content \in DocsA
  /\ volume = 0
  /\ seg = NoSeg
  /\ result = <<>>
  /\ text = <<>>
  /\ references = <<>>
  /\ themes = <<>>
  /\ MainIdle

SpecA == InitA /\ [][NextA]_vars

----------------------------------------------------------------------------
(* Claims about the Source-A segmenter                                     *)

\* C3: the example block gives exactly one record, with book
\* 'Book One: Myths Of God', title 'The First Light', a non-empty content
\* without the analytical sentence, that sentence as commentary, sources
\* ['Midrash Rabbah', 'Zohar'], themes including 'creation' and no biblical
\* reference.
C3_ExampleRecord ==
  (pc = "A_returned" /\ content.body = ExampleBlock) =>
    /\ Len(result) = 1
    /\ result[1].book = <<"B","o","o","k"," ","O","n","e",":"," ","M","y","t","h","s"," ","O","f"," ","G","o","d">>
    /\ result[1].title = <<"T","h","e"," ","F","i","r","s","t"," ","L","i","g","h","t">>
    /\ result[1].content # <<>>
    /\ ~includes(result[1].content, EX_ANALYSIS)
    /\ result[1].commentary = EX_ANALYSIS
    /\ result[1].sources = <<<<"M","i","d","r","a","s","h"," ","R","a","b","b","a","h">>, <<"Z","o","h","a","r">>>>
    /\ "creation" \in Range(result[1].themes)
    /\ result[1].biblicalReferences = <<>>

----------------------------------------------------------------------------
(* Claims about the steps of the Source-A segmenter                        *)

\* a step of the loop of parseSchwartzFile that stays in the loop
LoopStepA == pc = "A_loop" /\ pc' = "A_loop"
\* a line the loop takes for a book header, a section header or a numbered title
IsHeadingA(rawLine) ==
  LET line == fixOcrErrors(rawLine)
  IN  /\ rawLine # <<>>
      /\ ~isNoiseA(rawLine)
      /\ (isBookHeader(line) \/ isSectionHeader(line, seg.currentBook) \/ mythMatch(line) # 0)
IsTitleLineA(rawLine) ==
  /\ rawLine # <<>>
  /\ ~isNoiseA(rawLine)
  /\ mythMatch(fixOcrErrors(rawLine)) # 0

\* C14: the step that processes a book header leaves the section label
\* empty, so a title that follows it without a section header opens a record
\* with an empty section.
C14_SectionReset ==
  [][(LoopStepA /\ InLoopA("book")) => seg'.currentSection = <<>>]_vars

\* C15: the book and the section of every record parseSchwartzFile returns
\* are title-cased: in each word the first letter is upper-case and the
\* others are lower-case.
C15_LabelsTitleCased ==
  pc = "A_returned" =>
    \A k \in 1..Len(result) :
      /\ result[k].book = titleCaseWords(result[k].book)
      /\ result[k].section = titleCaseWords(result[k].section)

\* C18: the mode goes from content to commentary only on a line that comes
\* when more than 300 characters are buffered, starts with a lead-in phrase
\* and holds no quotation mark, 'said' or 'spoke'; that line is buffered as
\* commentary, and so is every line buffered after a commentary line.
C18_CommentarySwitch ==
  [][LoopStepA =>
       LET grown == Len(seg'.contentBuffer) > Len(seg.contentBuffer)
           asCommentary ==
             seg'.contentBuffer = Append(seg.contentBuffer, [mode |-> "commentary", text |-> lineA])
       IN  /\ (seg.mode = "content" /\ seg'.mode = "commentary") =>
                /\ totalLength(seg.contentBuffer) > 300
                /\ \E lead \in LeadIns : startsWith(toLowerCase(lineA), lead)
                /\ ~includes(lineA, <<"\"">>)
                /\ ~includes(lineA, <<"s","a","i","d">>)
                /\ ~includes(lineA, <<"s","p","o","k","e">>)
                /\ asCommentary
           /\ (seg.mode = "commentary" /\ seg'.mode = "content") => seg'.contentBuffer = <<>>
           /\ (grown /\ \E k \in 1..Len(seg.contentBuffer) : seg.contentBuffer[k].mode = "commentary")
                => asCommentary
     ]_vars

\* a record with its narrative in content, then the analytical sentence and a
\* sentence with 'said' both in commentary
C18_Witness ==
  /\ pc = "A_loop"
  /\ seg.mode = "commentary"
  /\ Len(seg.contentBuffer) = 4
  /\ totalLength(SubSeq(seg.contentBuffer, 1, 2)) > 300
  /\ seg.contentBuffer[2].mode = "content"
  /\ seg.contentBuffer[3] = [mode |-> "commentary", text |-> EX_ANALYSIS]
  /\ seg.contentBuffer[4] = [mode |-> "commentary", text |-> EX_SAID]

\* a record is open and a Studies header was processed since its title, with
\* no heading after it
AfterStudies ==
  /\ pc = "A_loop"
  /\ seg.currentMyth # <<>>
  /\ \E j \in contentStartA(content)..(seg.i - 1) :
       /\ isStudiesHeader(fixOcrErrors(LineAt(content, j)))
       /\ \A k \in (j + 1)..(seg.i - 1) : ~IsHeadingA(LineAt(content, k))

\* C19: once the Studies header of an open record is processed, no line up to
\* the next book header, section header or numbered title is added to the
\* record's content, commentary or sources, a Sources header among them or not.
C19_StudiesDiscarded ==
  [][(LoopStepA /\ AfterStudies /\ ~IsHeadingA(rawLineA)) =>
       /\ seg'.currentMyth = seg.currentMyth
       /\ seg'.contentBuffer = seg.contentBuffer
     ]_vars

\* C20: every line that is not noise and matches the numbered-title pattern
\* is processed as a title: it flushes the record in progress and opens one
\* with its number and title, the current book and section, in mode content.
C20_EveryTitleOpensRecord ==
  [][LoopStepA =>
       \A k \in seg.i..(seg'.i - 1) :
         IsTitleLineA(LineAt(content, k)) =>
           /\ k = seg.i
           /\ seg'.myths = flushA(seg)
           /\ seg'.currentMyth = <<newMythA(lineA, seg.currentBook, seg.currentSection)>>
           /\ seg'.contentBuffer = <<>>
           /\ seg'.mode = "content"
     ]_vars

\* the effect the section-header rule is said to have
SectionEffect ==
  /\ seg'.myths = flushA(seg)
  /\ seg'.currentSection = titleCaseWords(lineA)
  /\ seg'.currentMyth = <<>>
  /\ seg'.contentBuffer = <<>>
  /\ seg'.mode = "seeking"

\* no record is open and a section header was the last heading processed
UnderSection ==
  /\ pc = "A_loop"
  /\ \E j \in contentStartA(content)..(seg.i - 1) :
       /\ ~isNoiseA(LineAt(content, j))
       /\ isSectionHeader(fixOcrErrors(LineAt(content, j)), seg.currentBook)
       /\ \A k \in (j + 1)..(seg.i - 1) : ~IsHeadingA(LineAt(content, k))

\* no record is opened, closed or added to
NothingAdded ==
  /\ seg'.myths = seg.myths
  /\ seg'.currentMyth = <<>>
  /\ seg'.contentBuffer = <<>>

\* C21 as stated: an upper-case line of 6 to 59 characters that is not
\* numbered and is no book, Sources or Studies header, processed while a book
\* is set, flushes the open record, becomes the title-cased section label and
\* leaves no record open in mode seeking.
C21_SectionHeaderAsStated ==
  [][(/\ LoopStepA
      /\ rawLineA # <<>> /\ ~isNoiseA(rawLineA)
      /\ lineA = toUpperCase(lineA)
      /\ Len(lineA) \in 6..59
      /\ ~startsNumbered(lineA)
      /\ ~isBookHeader(lineA) /\ ~isSourcesHeader(lineA) /\ ~isStudiesHeader(lineA)
      /\ seg.currentBook # <<>>) => SectionEffect
    ]_vars

\* C21, amended: the same for a line that does not start with BOOK and white
\* space, with Sources or with Studies in any case; and no line between such
\* a header and the next numbered title opens, closes or changes a record.
C21_SectionHeader ==
  [][/\ (/\ LoopStepA
          /\ rawLineA # <<>> /\ ~isNoiseA(rawLineA)
          /\ lineA = toUpperCase(lineA)
          /\ Len(lineA) \in 6..59
          /\ ~startsNumbered(lineA)
          /\ ~startsBook(lineA)
          /\ ~startsWith(toLowerCase(lineA), <<"s","o","u","r","c","e","s">>)
          /\ ~startsWith(toLowerCase(lineA), <<"s","t","u","d","i","e","s">>)
          /\ seg.currentBook # <<>>) => SectionEffect
     /\ (LoopStepA /\ UnderSection /\ ~IsHeadingA(rawLineA)) => NothingAdded
    ]_vars

\* a record closed and kept by a section header, and the line under the
\* header passed with no record open
C21_Witness ==
  /\ pc = "A_loop"
  /\ content.body = SectionBlock
  /\ seg.i = content.pad + 5
  /\ Len(seg.myths) = 1
  /\ seg.currentSection = titleCaseWords(M_SECTION)
  /\ seg.currentMyth = <<>>
  /\ seg.mode = "seeking"
----------------------------------------------------------------------------
(* SpecB: parseGinzbergFile stepped line by line over bounded documents    *)

MaxLinesB == 3

B_ONE == <<"I">>
B_TWO == <<"I","I",".">>
B_SECTION == <<"T","H","E"," ","F","I","R","S","T"," ","T","H","I","N","G","S"," ","C","R","E","A","T","E","D">>
\* 104 characters, 101 without the footnote mark, 100 once cleanText has
\* collapsed the two spaces the mark leaves
B_FOOTNOTED == <<"A","n","d"," ","G","o","d"," ","c","r","e","a","t","e","d"," ","t","h","e"," ","a","n","g","e","l","s"," ","o","n"," ","t","h","e"," ","s","e","c","o","n","d"," ","d","a","y",","," ","[","3","]"," ","a","n","d"," ","t","h","e"," ","h","e","a","v","e","n","s"," ","w","e","r","e"," ","f","i","l","l","e","d"," ","w","i","t","h"," ","t","h","e","i","r"," ","s","o","n","g"," ","o","f"," ","p","r","a","i","s","e",".">>
B_ROMAN_PAGE == <<"i","v">>
B_PAGE == <<"1","2">>
\* a section title of 76 characters with a space as its 68th
B_LONG_SECTION == <<"T","H","E"," ","G","E","N","E","R","A","T","I","O","N","S"," ","O","F"," ","T","H","E"," ","C","H","I","L","D","R","E","N"," ","O","F"," ","N","O","A","H"," ","A","N","D"," ","O","F"," ","T","H","E"," ","S","E","V","E","N","T","Y"," ","K","I","N","G","D","O","M","S"," ","O","F"," ","E","A","R","T","H">>
\* a second chapter whose numeral is followed by four lines of text before the
\* next upper-case line
ChapterBlock == <<B_ONE, CREATION_TITLE, B_TWO, B_FOOTNOTED, B_PAGE, B_ROMAN_PAGE, B_FOOTNOTED, B_SECTION, B_FOOTNOTED>>
LinesB == {B_TWO, B_SECTION, B_FOOTNOTED, B_ROMAN_PAGE, B_PAGE}

\* with or without the chapter marker of the first chapter, behind 400 blank
\* lines or at the top of the file
DocsB ==
  {[pad |-> p, body |-> h \o b] :
      p \in {0, CONTENT_SEARCH_FROM_B},
      h \in {<<>>, <<B_ONE, CREATION_TITLE>>},
      b \in SeqsUpTo(LinesB, MaxLinesB)}
  \cup {[pad |-> CONTENT_SEARCH_FROM_B, body |-> <<B_ONE, CREATION_TITLE, B_LONG_SECTION>>],
        [pad |-> CONTENT_SEARCH_FROM_B, body |-> ChapterBlock]}

InitB ==
  /\ pc = "B_start"
  /\ content \in DocsB
  /\ volume \in {1, 2}
  /\ seg = NoSeg
  /\ result = <<>>
  /\ text = <<>>
  /\ references = <<>>
  /\ themes = <<>>
  /\ MainIdle

SpecB == InitB /\ [][NextB]_vars

----------------------------------------------------------------------------
(* Claims about both segmenters                                            *)

\* C1: every record parseSchwartzFile returns has a content longer than 50
\* characters, and every record parseGinzbergFile returns one longer than 100.
C1_ContentAboveMinimum ==
  /\ pc = "A_returned" => \A k \in 1..Len(result) : Len(result[k].content) > MIN_CONTENT_A
  /\ pc = "B_returned" => \A k \in 1..Len(result) : Len(result[k].content) > MIN_CONTENT_B

\* a line of digits only, or of lower-case Roman-numeral letters only
isPageNumber(line) ==
  /\ line # <<>>
  /\ \/ \A p \in 1..Len(line) : line[p] \in Digits
     \/ \A p \in 1..Len(line) : line[p] \in {"i", "v", "x", "l", "c"}

\* C2: in both segmenters the step that processes a line of digits only, or of
\* lower-case Roman-numeral letters only, opens no record and buffers nothing.
C2_PageNumbersDiscarded ==
  [][ (/\ pc \in {"A_loop", "B_loop"}
       /\ seg.i < NumLines(content)
       /\ isPageNumber(LineAt(content, seg.i)))
      => (seg'.currentMyth = seg.currentMyth /\ seg'.contentBuffer = seg.contentBuffer) ]_vars


IdChars == Lower \cup Digits \cup {"-"}
\* lower-case letters, digits and single hyphens between them, at most ID_MAX
\* characters, behind the tag
IdWellFormed(id, tag) ==
  /\ Len(id) <= ID_MAX
  /\ \A k \in 1..Len(id) : id[k] \in IdChars
  /\ id # <<>> /\ id[1] # "-" /\ id[Len(id)] # "-"
  /\ \A k \in 1..(Len(id) - 1) : ~(id[k] = "-" /\ id[k + 1] = "-")
  /\ startsWith(id, tag)

\* C17: the id of a record is at most 80 characters long, made of lower-case
\* letters, digits and single hyphens between alphanumeric runs, with no
\* hyphen at either end, and begins with the source tag and the volume tag.
C17_IdWellFormed ==
  (pc = "B_loop" /\ seg.currentMyth # <<>>) =>
    IdWellFormed(seg.currentMyth[1].id, GINZBERG \o <<"-">> \o volumeTag(volume))

LoopStepB == pc = "B_loop" /\ pc' = "B_loop"
\* the last Roman-numeral line before line i, from the content start on
LastNumeralBefore(i) ==
  LET js == {j \in contentStartB(content)..(i - 1) : romanPattern(LineAt(content, j))}
  IN  IF js = {} THEN -1 ELSE CHOOSE j \in js : \A k \in js : k <= j

\* C22: a Roman-numeral chapter line flushes and clears the open record, and
\* a record started after it has as its book a label made of that numeral,
\* never the label of an earlier chapter's numeral.
C22_ChapterLabel ==
  [][/\ (LoopStepB /\ InLoopB("chapter")) =>
          /\ seg'.myths = flushB(seg)
          /\ seg'.currentMyth = <<>>
          /\ seg'.contentBuffer = <<>>
     /\ (LoopStepB /\ InLoopB("section") /\ LastNumeralBefore(seg.i) # -1) =>
          startsWith(seg'.currentMyth[1].book,
                     romanOf(LineAt(content, LastNumeralBefore(seg.i))) \o <<".", " ">>)
    ]_vars
----------------------------------------------------------------------------
(* Spec: one run of main over bounded files                                *)

MaxBlocks == 1

M_LILITH == <<"L","i","l","i","t","h"," ","t","h","e"," ","d","e","m","o","n"," ","f","l","e","d"," ","f","r","o","m"," ","t","h","e"," ","g","a","r","d","e","n",","," ","a","n","d"," ","t","h","r","e","e"," ","a","n","g","e","l","s"," ","w","e","r","e"," ","s","e","n","t"," ","o","u","t",".">>
\* a section with a myth, its sources and its studies, around a page break
MA_LIGHT ==
  <<M_SECTION, A_TITLE, M_LIGHT, A_BLANK, A_PAGE, A_SOURCES, M_SOURCE_LINE, A_STUDIES, M_STUDY_LINE>>
MA_LILITH == <<<<"2","."," ","L","I","L","I","T","H">>, M_LILITH>>
BlocksA == {MA_LIGHT, MA_LILITH, <<A_BOOK_TWO>>}
\* two myths of one title, the second with its demon in the title only
MA_TWICE == <<<<"2","."," ","L","I","L","I","T","H">>, M_LILITH, <<"3","."," ","L","I","L","I","T","H">>, M_LIGHT>>

M_ANGELS == <<"T","h","e"," ","m","i","n","i","s","t","e","r","i","n","g"," ","a","n","g","e","l","s"," ","s","t","o","o","d"," ","b","e","f","o","r","e"," ","t","h","e"," ","L","o","r","d"," ","b","y"," ","n","i","g","h","t"," ","a","n","d"," ","b","y"," ","d","a","y",","," ","a","n","d"," ","t","h","e","y"," ","d","i","d"," ","n","o","t"," ","c","e","a","s","e"," ","f","r","o","m"," ","t","h","e","i","r"," ","s","o","n","g",".">>
M_ADAM == <<"T","h","e"," ","L","o","r","d"," ","t","o","o","k"," ","d","u","s","t"," ","f","r","o","m"," ","t","h","e"," ","f","o","u","r"," ","c","o","r","n","e","r","s"," ","o","f"," ","t","h","e"," ","e","a","r","t","h"," ","a","n","d"," ","m","a","d","e"," ","A","d","a","m",","," ","a","n","d"," ","H","e"," ","s","e","t"," ","h","i","m"," ","o","v","e","r"," ","a","l","l"," ","t","h","e"," ","a","n","i","m","a","l","s",".">>
MB_ANGELS == <<<<"T","H","E"," ","A","N","G","E","L","S">>, M_ANGELS, A_BLANK, B_PAGE>>
MB_ADAM == <<<<"I","I">>, <<"A","D","A","M">>, <<"O","f"," ","t","h","e"," ","f","i","r","s","t"," ","m","a","n",".">>, <<"T","H","E"," ","F","I","R","S","T"," ","M","A","N">>, M_ADAM>>
BlocksB == {MB_ANGELS, MB_ADAM}
\* a second chapter and nothing before it; the section title names a
\* biblical book and two themes that its text does not
MB_NOAH == <<<<"I","I">>, <<"N","O","A","H">>, <<"G","E","N","E","S","I","S"," ","A","N","D"," ","T","H","E"," ","A","N","G","E","L","S">>, M_ADAM>>

\* the concatenations of at most n blocks
RECURSIVE BlocksUpTo(_, _)
BlocksUpTo(S, n) ==
  IF n = 0 THEN {<<>>}
  ELSE BlocksUpTo(S, n - 1) \cup {s \o x : s \in BlocksUpTo(S, n - 1), x \in S}

\* BOOK ONE behind 6000 blank lines and at most MaxBlocks blocks, a file
\* whose BOOK ONE comes too early to be found, and one with a title twice
MainDocsA ==
  {[pad |-> CONTENT_SEARCH_FROM_A, body |-> <<BOOK_ONE>> \o b] : b \in BlocksUpTo(BlocksA, MaxBlocks)}
  \cup {[pad |-> 0, body |-> <<BOOK_ONE>> \o MA_LILITH]}
  \cup {[pad |-> CONTENT_SEARCH_FROM_A, body |-> <<BOOK_ONE>> \o MA_TWICE]}
MainDocsB ==
  {[pad |-> CONTENT_SEARCH_FROM_B, body |-> <<B_ONE, CREATION_TITLE>> \o b] : b \in BlocksUpTo(BlocksB, MaxBlocks)}
  \cup {[pad |-> CONTENT_SEARCH_FROM_B, body |-> MB_NOAH]}

\* each of the three paths holds one of the files or none
Init == InitMain(MainDocsA \cup {Missing}, MainDocsB \cup {Missing})
Next == MainStep \/ MainFailure \/ NextA \/ NextB
Spec == Init /\ [][Next]_vars

----------------------------------------------------------------------------
(* Claims about the aggregator                                             *)

Built == pc \in {"built", "done"}
Stats == database.metadata.stats
FilterOptions == database.metadata.filterOptions
Records == {database.myths[k] : k \in 1..Len(database.myths)}
RecordsWithTheme(t) == {k \in 1..Len(database.myths) : t \in Range(database.myths[k].themes)}
RecordsWithBook(b) == {k \in 1..Len(database.myths) : database.myths[k].book = b}
AllThemeIds == {THEME_KEYWORDS[t].theme : t \in 1..Len(THEME_KEYWORDS)}

\* C7: filterOptions.themes holds exactly the themes whose count in
\* stats.themes is not zero, each once, and the counts never increase along it.
C7_ThemesByCount ==
  Built =>
    LET listed == FilterOptions.themes
        count(t) == ValueOrZero(Stats.themes, t)
    IN  /\ Range(listed) = {t \in AllThemeIds \cup Range(listed) : count(t) > 0}
        /\ NoDuplicates(listed)
        /\ \A k \in 1..(Len(listed) - 1) : count(listed[k]) >= count(listed[k + 1])

\* a corpus in which the most frequent theme was not the first one counted
C7_Witness ==
  /\ Built
  /\ Len(FilterOptions.themes) >= 3
  /\ FilterOptions.themes # ObjectKeys(Stats.themes)
  /\ ValueOrZero(Stats.themes, FilterOptions.themes[1]) >= 2
  /\ ValueOrZero(Stats.themes, FilterOptions.themes[Len(FilterOptions.themes)]) = 1

\* C8: every theme of a record is in filterOptions.themes and every book label
\* of a record is in filterOptions.books, and neither list holds a value that
\* no record has.
C8_VocabularyInSync ==
  Built =>
    /\ \A m \in Records : Range(m.themes) \subseteq Range(FilterOptions.themes)
    /\ \A m \in Records : m.book \in Range(FilterOptions.books)
    /\ \A t \in Range(FilterOptions.themes) : RecordsWithTheme(t) # {}
    /\ \A b \in Range(FilterOptions.books) : RecordsWithBook(b) # {}

\* a corpus of three records in two books, with fewer themes than the taxonomy
C8_Witness ==
  /\ Built
  /\ Len(database.myths) = 3
  /\ Len(FilterOptions.books) >= 2
  /\ FilterOptions.books # ObjectKeys(Stats.books)
  /\ Len(FilterOptions.themes) \in 2..(Len(THEME_KEYWORDS) - 1)

\* C9: stats.total is the number of records and the sum of the three
\* bySources counts; myths is the Source-A records, then those of volume 1,
\* then those of volume 2; each count in stats.themes is the number of
\* records with that theme and each count in stats.books the number of
\* records with that book label.
C9_Statistics ==
  Built =>
    /\ Stats.total = Len(database.myths)
    /\ Stats.total = Stats.bySources.schwartz + Stats.bySources.ginzberg_v1 + Stats.bySources.ginzberg_v2
    /\ database.myths = schwartzMyths \o ginzberg1Myths \o ginzberg2Myths
    /\ Stats.bySources.schwartz = Len(schwartzMyths)
    /\ Stats.bySources.ginzberg_v1 = Len(ginzberg1Myths)
    /\ Stats.bySources.ginzberg_v2 = Len(ginzberg2Myths)
    /\ \A k \in 1..Len(database.myths) :
         database.myths[k].sourceWork =
           IF k <= Len(schwartzMyths) THEN SCHWARTZ
           ELSE IF k <= Len(schwartzMyths) + Len(ginzberg1Myths) THEN <<"g","i","n","z","b","e","r","g","-","v","1">>
           ELSE <<"g","i","n","z","b","e","r","g","-","v","2">>
    /\ \A k \in 1..Len(Stats.themes) :
         Stats.themes[k].value = Cardinality(RecordsWithTheme(Stats.themes[k].key))
    /\ \A k \in 1..Len(Stats.books) :
         Stats.books[k].value = Cardinality(RecordsWithBook(Stats.books[k].key))

\* one record of each source, a theme two records share, a book two records share
C9_Witness ==
  /\ Built
  /\ Len(schwartzMyths) = 1 /\ Len(ginzberg1Myths) = 1 /\ Len(ginzberg2Myths) = 1
  /\ \E k \in 1..Len(Stats.themes) : Stats.themes[k].value = 2
  /\ \E k \in 1..Len(Stats.books) : Stats.books[k].value = 2
----------------------------------------------------------------------------
(* Claims about the run of main                                            *)

\* C11: a source whose start-of-content marker is not found gives no record,
\* and the run still writes the database.
C11_MarkerNotFound ==
  pc = "done" =>
    /\ contentStartA(files.schwartz) = 0 => schwartzMyths = <<>>
    /\ contentStartB(files.ginzberg1) = 0 => ginzberg1Myths = <<>>
    /\ contentStartB(files.ginzberg2) = 0 => ginzberg2Myths = <<>>
    /\ output = <<database>>

\* C12: when one of the three files cannot be read, nothing is written and the
\* process ends with an error message and an exit status that is not 0.
C12_ReadFailureAborts ==
  (process.state = "exited" /\ Missing \in {files.schwartz, files.ginzberg1, files.ginzberg2}) =>
    /\ output = <<>>
    /\ process.stderr # <<>>
    /\ process.exitCode # 0

\* C13: the ids of the records of a corpus are pairwise distinct.
C13_UniqueIds ==
  Built =>
    \A j, k \in 1..Len(database.myths) :
      j # k => database.myths[j].id # database.myths[k].id

IsGinzberg(r) == startsWith(r.sourceWork, GINZBERG)
IsSchwartz(r) == r.sourceWork = SCHWARTZ
FullTextOf(r) == r.title \o <<" ">> \o r.content \o <<" ">> \o r.commentary

\* C16: a Ginzberg record has no theme and no reference that its content does
\* not give, whatever its title and chapter label hold; a Schwartz record has
\* the themes of its title, and none and no reference that title, content and
\* commentary together do not give.
C16_AnnotationInput ==
  Built => \A r \in Records :
    /\ IsGinzberg(r) =>
         /\ Range(r.themes) \subseteq Range(extractThemes(r.content))
         /\ Range(r.biblicalReferences) \subseteq Range(extractBiblicalReferences(r.content))
    /\ IsSchwartz(r) =>
         /\ Range(extractThemes(r.title)) \subseteq Range(r.themes)
         /\ Range(r.themes) \subseteq Range(extractThemes(FullTextOf(r)))
         /\ Range(r.biblicalReferences) \subseteq Range(extractBiblicalReferences(FullTextOf(r)))

\* a Ginzberg record whose title and chapter label hold keywords of themes it
\* does not have, next to a Schwartz record with a theme only its title gives
C16_Witness ==
  /\ Built
  /\ \E r \in Records :
       /\ IsGinzberg(r)
       /\ r.themes # <<>>
       /\ "creation" \in Range(extractThemes(r.title)) \ Range(r.themes)
       /\ "noah" \in Range(extractThemes(r.book)) \ Range(r.themes)
  /\ \E r \in Records :
       /\ IsSchwartz(r)
       /\ "demons" \in Range(r.themes) \ Range(extractThemes(r.content \o <<" ">> \o r.commentary))
----------------------------------------------------------------------------
(* SpecRerun: main run again and again, the files edited or not in between *)

RerunDocsA ==
  {[pad |-> CONTENT_SEARCH_FROM_A, body |-> <<BOOK_ONE>> \o MA_LIGHT],
   [pad |-> CONTENT_SEARCH_FROM_A, body |-> <<BOOK_ONE>> \o MA_LILITH],
   [pad |-> 0, body |-> <<BOOK_ONE>> \o MA_LILITH]}
RerunDocsB ==
  {[pad |-> CONTENT_SEARCH_FROM_B, body |-> <<B_ONE, CREATION_TITLE>> \o MB_ANGELS],
   [pad |-> CONTENT_SEARCH_FROM_B, body |-> <<B_ONE, CREATION_TITLE>> \o MB_ADAM]}

InitRerun == InitMain(RerunDocsA, RerunDocsB)
NextRerun == MainStep \/ NextA \/ NextB \/ M_Rerun(RerunDocsA, RerunDocsB)
SpecRerun == InitRerun /\ [][NextRerun]_vars

\* a list of records without what the volume number puts in them
WithoutVolume(myths) ==
  [k \in 1..Len(myths) |->
     [title |-> myths[k].title, content |-> myths[k].content,
      commentary |-> myths[k].commentary, sources |-> myths[k].sources,
      book |-> myths[k].book, section |-> myths[k].section,
      biblicalReferences |-> myths[k].biblicalReferences, themes |-> myths[k].themes]]

\* C10: a run on the three texts of the run before it gives the same myths,
\* stats and filterOptions; a segmenter gives the same records for the same
\* text and volume whatever the other files were, and the same records but
\* for the volume when it is called second and third on the same text.
C10_Deterministic ==
  /\ Built /\ files.ginzberg1 = files.ginzberg2 =>
       WithoutVolume(ginzberg1Myths) = WithoutVolume(ginzberg2Myths)
  /\ Built /\ previous # <<>> =>
       LET before == previous[1]
       IN  /\ files = before.files =>
                /\ database.myths = before.database.myths
                /\ Stats = before.database.metadata.stats
                /\ FilterOptions = before.database.metadata.filterOptions
           /\ files.schwartz = before.files.schwartz => schwartzMyths = before.schwartzMyths
           /\ files.ginzberg1 = before.files.ginzberg1 => ginzberg1Myths = before.ginzberg1Myths
           /\ files.ginzberg2 = before.files.ginzberg2 => ginzberg2Myths = before.ginzberg2Myths
           /\ files.ginzberg2 = before.files.ginzberg1 =>
                WithoutVolume(ginzberg2Myths) = WithoutVolume(before.ginzberg1Myths)

\* a second run on the same three files, written at another time
C10_Witness ==
  /\ pc = "done"
  /\ previous # <<>>
  /\ files = previous[1].files
  /\ Len(database.myths) = 3
  /\ database.metadata.generated # previous[1].database.metadata.generated
  /\ output = <<database>>
----------------------------------------------------------------------------
(* The browsing page: the state object, applyFilters, renderResults and    *)
(* the event handlers of setupEventListeners                                *)

ITEMS_PER_PAGE == 24
ALL == <<"a","l","l">>

\* the state object as declared
initialState ==
  [myths |-> <<>>,
   filteredMyths |-> <<>>,
   metadata |-> <<>>,
   currentPage |-> 1,
   itemsPerPage |-> ITEMS_PER_PAGE,
   searchQuery |-> <<>>,
   selectedSource |-> ALL,
   selectedThemes |-> <<>>,
   selectedBook |-> ALL,
   sortBy |-> "relevance",
   viewMode |-> "cards"]

\* the characters of a theme id
themeText ==
  [t \in {THEME_KEYWORDS[k].theme : k \in 1..Len(THEME_KEYWORDS)} |->
     CASE t = "creation" -> <<"c","r","e","a","t","i","o","n">>
       [] t = "angels" -> <<"a","n","g","e","l","s">>
       [] t = "demons" -> <<"d","e","m","o","n","s">>
       [] t = "heaven" -> <<"h","e","a","v","e","n">>
       [] t = "hell" -> <<"h","e","l","l">>
       [] t = "messiah" -> <<"m","e","s","s","i","a","h">>
       [] t = "torah" -> <<"t","o","r","a","h">>
       [] t = "patriarchs" -> <<"p","a","t","r","i","a","r","c","h","s">>
       [] t = "moses" -> <<"m","o","s","e","s">>
       [] t = "adam-eve" -> <<"a","d","a","m","-","e","v","e">>
       [] t = "noah" -> <<"n","o","a","h">>
       [] t = "mysticism" -> <<"m","y","s","t","i","c","i","s","m">>
       [] t = "creatures" -> <<"c","r","e","a","t","u","r","e","s">>
       [] t = "soul" -> <<"s","o","u","l">>
       [] t = "prophecy" -> <<"p","r","o","p","h","e","c","y">>
       [] t = "temple" -> <<"t","e","m","p","l","e">>
       [] t = "exile" -> <<"e","x","i","l","e">>
       [] t = "holy-land" -> <<"h","o","l","y","-","l","a","n","d">>]

\* myth.number || 0: a Ginzberg record has no number
numberOf(myth) == IF "number" \in DOMAIN myth THEN myth.number ELSE 0

\* `${myth.title} ${myth.content} ${myth.commentary || ''} ${myth.themes.join(' ')}`.toLowerCase()
searchText(myth) ==
  toLowerCase(myth.title \o <<" ">> \o myth.content \o <<" ">> \o myth.commentary \o <<" ">>
              \o join([k \in 1..Len(myth.themes) |-> themeText[myth.themes[k]]]))

\* new RegExp(query, 'g') for a query made of letters, digits, spaces, dots
\* and parentheses: a SyntaxError when the parentheses do not pair up
RegExpThrows(query) ==
  LET opened(p) == Cardinality({k \in 1..p : query[k] = "("})
      closed(p) == Cardinality({k \in 1..p : query[k] = ")"})
  IN  \/ opened(Len(query)) # closed(Len(query))
      \/ \E p \in 1..Len(query) : closed(p) > opened(p)

\* the pattern matches s at position p: a dot stands for any character
matchAt(s, p, pattern) ==
  /\ p + Len(pattern) - 1 <= Len(s)
  /\ \A k \in 1..Len(pattern) : pattern[k] = "." \/ s[p + k - 1] = pattern[k]

\* (s.match(new RegExp(pattern, 'g')) || []).length for a pattern of
\* letters, digits, spaces and dots: the matches from the left, none
\* overlapping another
RECURSIVE matchCount(_, _, _)
matchCount(s, from, pattern) ==
  LET hits == {p \in from..(Len(s) - Len(pattern) + 1) : matchAt(s, p, pattern)}
  IN  IF hits = {} THEN 0 ELSE 1 + matchCount(s, MinOf(hits) + Len(pattern), pattern)

\* "Calculate relevance scores for search results"
relevanceScore(myth, query) ==
  (IF includes(toLowerCase(myth.title), query) THEN 100 ELSE 0)
  + (IF \E k \in 1..Len(myth.themes) : includes(themeText[myth.themes[k]], query) THEN 50 ELSE 0)
  + 5 * matchCount(toLowerCase(myth.content), 1, query)

\* { ...myth, relevanceScore: score }: a copy of the record with one more field
withScore(myth, score) ==
  [f \in DOMAIN myth \cup {"relevanceScore"} |-> IF f = "relevanceScore" THEN score ELSE myth[f]]

\* String.prototype.localeCompare on letters, digits and the punctuation of
\* titles and labels: white space and punctuation before digits before
\* letters, letters without regard to case, and at a tie lower case first
PunctuationOrder == <<" ", "_", "-", ",", ";", ":", "!", "?", ".", "'", "(", ")", "&">>
collationWeight ==
  [c \in Lower \cup Upper \cup Digits \cup Range(PunctuationOrder) |->
     IF toLowerChar(c) \in Lower THEN 200 + (CHOOSE k \in 1..26 : LowerLetters[k] = toLowerChar(c))
     ELSE IF c \in Digits THEN 100 + DigitValue[c]
     ELSE CHOOSE k \in 1..Len(PunctuationOrder) : PunctuationOrder[k] = c]
localeCompare(a, b) ==
  LET both == IF Len(a) < Len(b) THEN Len(a) ELSE Len(b)
      diff == {p \in 1..both : collationWeight[a[p]] # collationWeight[b[p]]}
      caseDiff == {p \in 1..both : a[p] # b[p]}
  IN  IF diff # {}
      THEN (IF collationWeight[a[MinOf(diff)]] < collationWeight[b[MinOf(diff)]] THEN -1 ELSE 1)
      ELSE IF Len(a) # Len(b) THEN (IF Len(a) < Len(b) THEN -1 ELSE 1)
      ELSE IF caseDiff = {} THEN 0
      ELSE IF a[MinOf(caseDiff)] \in Lower THEN -1 ELSE 1

\* const sourceOrder = {...}; sourceOrder[sourceWork] || 99
sourceOrder(sourceWork) ==
  IF sourceWork = SCHWARTZ THEN 1
  ELSE IF sourceWork = GINZBERG \o <<"-","v","1">> THEN 2
  ELSE IF sourceWork = GINZBERG \o <<"-","v","2">> THEN 3
  ELSE 99

\* the value the comparator of sortResults returns for (a, b); 0 for a sort
\* key with no comparator
compareFn(st, a, b) ==
  IF st.sortBy = "relevance"
  THEN IF st.searchQuery # <<>> THEN b.relevanceScore - a.relevanceScore
       ELSE IF a.sourceWork # b.sourceWork THEN localeCompare(a.sourceWork, b.sourceWork)
       ELSE numberOf(a) - numberOf(b)
  ELSE IF st.sortBy = "title" THEN localeCompare(a.title, b.title)
  ELSE IF st.sortBy = "source" THEN sourceOrder(a.sourceWork) - sourceOrder(b.sourceWork)
  ELSE 0

\* results.sort(compareFn): the sort is stable, here by merging sorted halves
RECURSIVE merge(_, _, _)
merge(a, b, st) ==
  IF a = <<>> THEN b
  ELSE IF b = <<>> THEN a
  ELSE IF compareFn(st, a[1], b[1]) <= 0 THEN <<a[1]>> \o merge(Tail(a), b, st)
  ELSE <<b[1]>> \o merge(a, Tail(b), st)
RECURSIVE sortResults(_, _)
sortResults(results, st) ==
  IF Len(results) <= 1 THEN results
  ELSE LET half == Len(results) \div 2
       IN  merge(sortResults(SubSeq(results, 1, half), st),
                 sortResults(SubSeq(results, half + 1, Len(results)), st), st)

\* the filters of applyFilters, in its order
searchFilter(st, results) ==
  IF st.searchQuery # <<>>
  THEN LET found == SelectSeq(results, LAMBDA myth : includes(searchText(myth), st.searchQuery))
       IN  [k \in 1..Len(found) |-> withScore(found[k], relevanceScore(found[k], st.searchQuery))]
  ELSE [k \in 1..Len(results) |-> withScore(results[k], 0)]
sourceFilter(st, results) ==
  IF st.selectedSource # ALL
  THEN SelectSeq(results, LAMBDA myth : myth.sourceWork = st.selectedSource)
  ELSE results
themeFilter(st, results) ==
  IF Len(st.selectedThemes) > 0
  THEN SelectSeq(results, LAMBDA myth : \E k \in 1..Len(st.selectedThemes) :
                                          st.selectedThemes[k] \in Range(myth.themes))
  ELSE results
bookFilter(st, results) ==
  IF st.selectedBook # ALL
  THEN SelectSeq(results, LAMBDA myth : myth.book = st.selectedBook)
  ELSE results

\* applyFilters throws: the search is not empty, some record matches it and
\* the RegExp of the score cannot be built
applyThrows(st) ==
  /\ st.searchQuery # <<>>
  /\ RegExpThrows(st.searchQuery)
  /\ \E k \in 1..Len(st.myths) : includes(searchText(st.myths[k]), st.searchQuery)

\* state.filteredMyths after applyFilters has run to its end
filtered(st) ==
  sortResults(bookFilter(st, themeFilter(st, sourceFilter(st, searchFilter(st, st.myths)))), st)

\* the same with the work done on state.myths itself and not on a copy
applied_inPlace(st) == [st EXCEPT !.filteredMyths = filtered(st), !.myths = filtered(st)]

\* the state object after applyFilters: the filters and the sort work on the
\* copy [...state.myths] and on copies of the records
applied(st) == [st EXCEPT !.filteredMyths = filtered(st)]

\* escapeHtml: what innerHTML gives for a text node
escapeHtml(txt) ==
  replaceAll(replaceAll(replaceAll(txt, <<"&">>, <<"&","a","m","p",";">>), <<"<">>, <<"&","l","t",";">>), <<">">>, <<"&","g","t",";">>)

\* t.replace('-', ' '): the first hyphen only
themeTag(t) ==
  LET s == themeText[t]
      hyphens == {p \in 1..Len(s) : s[p] = "-"}
  IN  IF hyphens = {} THEN s ELSE [p \in 1..Len(s) |-> IF p = MinOf(hyphens) THEN " " ELSE s[p]]

\* sourceLabels[myth.sourceWork] || myth.sourceWork, of the card and of the modal
cardSourceLabel(sourceWork) ==
  IF sourceWork = SCHWARTZ THEN <<"T","r","e","e"," ","o","f"," ","S","o","u","l","s">>
  ELSE IF sourceWork = GINZBERG \o <<"-","v","1">> THEN <<"L","e","g","e","n","d","s"," ","V","o","l","."," ","1">>
  ELSE IF sourceWork = GINZBERG \o <<"-","v","2">> THEN <<"L","e","g","e","n","d","s"," ","V","o","l","."," ","2">>
  ELSE sourceWork
modalSourceLabel(sourceWork) ==
  IF sourceWork = SCHWARTZ THEN <<"T","r","e","e"," ","o","f"," ","S","o","u","l","s"," ","(","S","c","h","w","a","r","t","z",")">>
  ELSE IF sourceWork = GINZBERG \o <<"-","v","1">> THEN <<"L","e","g","e","n","d","s"," ","o","f"," ","t","h","e"," ","J","e","w","s"," ","V","o","l","."," ","1"," ","(","G","i","n","z","b","e","r","g",")">>
  ELSE IF sourceWork = GINZBERG \o <<"-","v","2">> THEN <<"L","e","g","e","n","d","s"," ","o","f"," ","t","h","e"," ","J","e","w","s"," ","V","o","l","."," ","2"," ","(","G","i","n","z","b","e","r","g",")">>
  ELSE sourceWork

EXCERPT_MAX == 200
CARD_THEMES == 4

\* the article createMythCard writes: its data-id and its texts
createMythCard(myth) ==
  [id |-> myth.id,
   title |-> escapeHtml(myth.title),
   number |-> numberOf(myth),
   source |-> cardSourceLabel(myth.sourceWork),
   book |-> escapeHtml(myth.book),
   excerpt |-> escapeHtml(substring0(myth.content, EXCERPT_MAX)
                          \o (IF Len(myth.content) > EXCERPT_MAX THEN <<".",".",".">> ELSE <<>>)),
   themes |-> [k \in 1..(IF Len(myth.themes) < CARD_THEMES THEN Len(myth.themes) ELSE CARD_THEMES) |->
                 themeTag(myth.themes[k])]]

\* what openModal writes into modalContent
modalOf(myth) ==
  [title |-> escapeHtml(myth.title),
   source |-> modalSourceLabel(myth.sourceWork),
   book |-> escapeHtml(myth.book),
   section |-> escapeHtml(myth.section),
   content |-> escapeHtml(myth.content),
   commentary |-> escapeHtml(myth.commentary),
   themes |-> [k \in 1..Len(myth.themes) |-> themeTag(myth.themes[k])],
   sources |-> [k \in 1..Len(myth.sources) |-> escapeHtml(myth.sources[k])],
   references |-> [k \in 1..Len(myth.biblicalReferences) |-> escapeHtml(myth.biblicalReferences[k])]]

\* Math.ceil(filteredMyths.length / itemsPerPage)
totalPages(st) == (Len(st.filteredMyths) + st.itemsPerPage - 1) \div st.itemsPerPage

\* filteredMyths.slice(startIndex, endIndex)
pageResults(st) ==
  LET startIndex == (st.currentPage - 1) * st.itemsPerPage
      endIndex   == startIndex + st.itemsPerPage
      last       == IF endIndex < Len(st.filteredMyths) THEN endIndex ELSE Len(st.filteredMyths)
  IN  SubSeq(st.filteredMyths, startIndex + 1, last)

\* the page before any script has run (the open class of the sidebar, which
\* only the mobile toggle reads and writes, is left out)
initialElements ==
  [loading |-> "shown",
   totalCount |-> 0,
   searchInput |-> <<>>,
   bookFilter |-> ALL,
   themeChips |-> <<>>,
   bookOptions |-> <<>>,
   sourceActive |-> ALL,
   themesActive |-> {"all"},
   sortActive |-> "relevance",
   gridView |-> "cards",
   resultsCount |-> 0,
   resultsShowing |-> <<>>,
   emptyHidden |-> TRUE,
   gridHidden |-> FALSE,
   resultsGrid |-> <<>>,
   pageInfo |-> <<1, 1>>,
   prevDisabled |-> TRUE,
   nextDisabled |-> TRUE,
   modalContent |-> <<>>,
   modalHidden |-> TRUE]

\* renderResults: the counts, the cards of the current page, the pagination
renderResults(st, el) ==
  LET startIndex == (st.currentPage - 1) * st.itemsPerPage
      endIndex   == startIndex + st.itemsPerPage
      n          == Len(st.filteredMyths)
      page       == pageResults(st)
  IN  [el EXCEPT
         !.resultsCount = n,
         !.resultsShowing = IF n > st.itemsPerPage
                            THEN <<startIndex + 1, IF endIndex < n THEN endIndex ELSE n>>
                            ELSE <<>>,
         !.gridHidden = (n = 0),
         !.emptyHidden = (n # 0),
         !.resultsGrid = [k \in 1..Len(page) |-> createMythCard(page[k])],
         !.pageInfo = <<st.currentPage, IF totalPages(st) = 0 THEN 1 ELSE totalPages(st)>>,
         !.prevDisabled = (st.currentPage <= 1),
         !.nextDisabled = (st.currentPage >= totalPages(st))]

\* updateSourceFilterUI, updateThemeFilterUI, updateSortUI
updateFilterUI(st, el) ==
  [el EXCEPT
     !.sourceActive = st.selectedSource,
     !.themesActive = IF Len(st.selectedThemes) = 0 THEN {"all"} ELSE Range(st.selectedThemes),
     !.sortActive = st.sortBy]

\* the statements of clearAllFilters on the state object
clearAllFilters_keepsBook(st) ==
  [st EXCEPT
     !.searchQuery = <<>>,
     !.selectedSource = ALL,
     !.selectedThemes = <<>>,
     !.sortBy = "relevance",
     !.currentPage = 1]
clearAllFilters(st) ==
  [st EXCEPT
     !.searchQuery = <<>>,
     !.selectedSource = ALL,
     !.selectedThemes = <<>>,
     !.selectedBook = ALL,
     !.sortBy = "relevance",
     !.currentPage = 1]

\* the page of the next-page handler
nextPage_unguarded(st) == st.currentPage + 1
nextPage(st) == IF st.currentPage < totalPages(st) THEN st.currentPage + 1 ELSE st.currentPage

\* clearTimeout(searchTimeout) on n pending callbacks: the one the variable
\* names is the last one set
clearTimeout_noop(n) == n
clearTimeout(n) == IF n > 0 THEN n - 1 ELSE 0

\* the theme list after a click on a chip
toggleTheme(selected, theme) ==
  IF theme = "all" THEN <<>>
  ELSE IF theme \in Range(selected) THEN SelectSeq(selected, LAMBDA t : t # theme)
  ELSE Append(selected, theme)

\* state.myths.find(m => m.id === mythId): the first record with the id,
\* <<>> when there is none
findById(myths, mythId) ==
  LET hits == {k \in 1..Len(myths) : myths[k].id = mythId}
  IN  IF hits = {} THEN <<>> ELSE <<myths[MinOf(hits)]>>

\* what the handlers of the page leave alone
outsideBrowser == <<pc, text, references, themes, content, volume, seg, result, mainVars>>

\* the data-source values of the source chips
SourceChips == {ALL, SCHWARTZ, GINZBERG \o <<"-","v","1">>, GINZBERG \o <<"-","v","2">>}
SortKeys == {"relevance", "title", "source"}

\* the listeners are set up: loadData has returned
Listening == pc = "page" /\ elements.loading = "hidden"

\* applyFilters called with the state object st and the page el: the list is
\* replaced and rendered, or the call throws before either
ApplyFilters(st, el) ==
  IF applyThrows(st)
  THEN state' = st /\ elements' = el
  ELSE state' = applied(st) /\ elements' = renderResults(applied(st), el)

\* DOMContentLoaded: init with data/myths.json read
UI_Init ==
  /\ pc = "page"
  /\ elements.loading = "shown"
  /\ output # <<>>
  /\ LET data == output[1]
         st   == [state EXCEPT !.myths = data.myths, !.metadata = data.metadata]
         el   == [elements EXCEPT
                    !.totalCount = Len(data.myths),
                    !.themeChips = <<"all">> \o data.metadata.filterOptions.themes,
                    !.bookOptions = <<ALL>> \o data.metadata.filterOptions.books,
                    !.loading = "hidden"]
     IN  ApplyFilters(st, el)
  /\ UNCHANGED <<searchTimeout, cleared>>
  /\ UNCHANGED outsideBrowser

\* init with no data/myths.json to fetch: the error is shown, no listener is set up
UI_InitFailed ==
  /\ pc = "page"
  /\ elements.loading = "shown"
  /\ output = <<>>
  /\ elements' = [elements EXCEPT !.loading = "failed"]
  /\ UNCHANGED <<state, searchTimeout, cleared>>
  /\ UNCHANGED outsideBrowser

\* an input event of the search field, the field holding value
UI_Input(value) ==
  /\ Listening
  /\ value # elements.searchInput
  /\ elements' = [elements EXCEPT !.searchInput = value]
  /\ searchTimeout' = clearTimeout(searchTimeout) + 1
  /\ cleared' = "no"
  /\ UNCHANGED state
  /\ UNCHANGED outsideBrowser

\* the callback of the search timer, 300 ms after the last input event
UI_SearchTimer ==
  /\ Listening
  /\ searchTimeout > 0
  /\ searchTimeout' = searchTimeout - 1
  /\ ApplyFilters([state EXCEPT !.searchQuery = trim(toLowerCase(elements.searchInput)),
                                !.currentPage = 1],
                  elements)
  /\ UNCHANGED cleared
  /\ UNCHANGED outsideBrowser

\* a click on a source chip
UI_SourceChip(source) ==
  /\ Listening
  /\ LET st == [state EXCEPT !.selectedSource = source, !.currentPage = 1]
     IN  ApplyFilters(st, updateFilterUI(st, elements))
  /\ UNCHANGED <<searchTimeout, cleared>>
  /\ UNCHANGED outsideBrowser

\* a click on a theme chip
UI_ThemeChip(theme) ==
  /\ Listening
  /\ LET st == [state EXCEPT !.selectedThemes = toggleTheme(@, theme), !.currentPage = 1]
     IN  ApplyFilters(st, updateFilterUI(st, elements))
  /\ UNCHANGED <<searchTimeout, cleared>>
  /\ UNCHANGED outsideBrowser

\* a change event of the book select
UI_BookChange(book) ==
  /\ Listening
  /\ book # elements.bookFilter
  /\ ApplyFilters([state EXCEPT !.selectedBook = book, !.currentPage = 1],
                  [elements EXCEPT !.bookFilter = book])
  /\ UNCHANGED <<searchTimeout, cleared>>
  /\ UNCHANGED outsideBrowser

\* a click on a sort button
UI_SortButton(sort) ==
  /\ Listening
  /\ LET st == [state EXCEPT !.sortBy = sort, !.currentPage = 1]
     IN  ApplyFilters(st, updateFilterUI(st, elements))
  /\ UNCHANGED <<searchTimeout, cleared>>
  /\ UNCHANGED outsideBrowser

\* a click on a view button: setViewMode
UI_ViewMode(mode) ==
  /\ Listening
  /\ state' = [state EXCEPT !.viewMode = mode]
  /\ elements' = [elements EXCEPT !.gridView = mode]
  /\ UNCHANGED <<searchTimeout, cleared>>
  /\ UNCHANGED outsideBrowser

\* a click on "clear filters": clearAllFilters
UI_ClearFilters ==
  /\ Listening
  /\ LET st == clearAllFilters(state)
     IN  ApplyFilters(st, updateFilterUI(st, [elements EXCEPT !.searchInput = <<>>, !.bookFilter = ALL]))
  /\ cleared' = IF searchTimeout > 0 THEN "pending" ELSE "idle"
  /\ UNCHANGED searchTimeout
  /\ UNCHANGED outsideBrowser

\* a click on the previous-page button
UI_PrevPage ==
  /\ Listening
  /\ state.currentPage > 1
  /\ state' = [state EXCEPT !.currentPage = @ - 1]
  /\ elements' = renderResults(state', elements)
  /\ UNCHANGED <<searchTimeout, cleared>>
  /\ UNCHANGED outsideBrowser

\* a click on the next-page button
UI_NextPage ==
  /\ Listening
  /\ nextPage(state) # state.currentPage
  /\ state' = [state EXCEPT !.currentPage = nextPage(state)]
  /\ elements' = renderResults(state', elements)
  /\ UNCHANGED <<searchTimeout, cleared>>
  /\ UNCHANGED outsideBrowser

\* a click on the k-th card of the page
UI_CardClick(k) ==
  /\ Listening
  /\ k \in 1..Len(elements.resultsGrid)
  /\ LET myth == findById(state.myths, elements.resultsGrid[k].id)
     IN  /\ myth # <<>>
         /\ elements' = [elements EXCEPT !.modalContent = modalOf(myth[1]), !.modalHidden = FALSE]
  /\ UNCHANGED <<state, searchTimeout, cleared>>
  /\ UNCHANGED outsideBrowser

\* the close button, a click on the overlay, the Escape key: closeModal
UI_CloseModal ==
  /\ Listening
  /\ ~elements.modalHidden
  /\ elements' = [elements EXCEPT !.modalHidden = TRUE]
  /\ UNCHANGED <<state, searchTimeout, cleared>>
  /\ UNCHANGED outsideBrowser

----------------------------------------------------------------------------
(* SpecPage: the page over a corpus of two records, every handler           *)

\* a paragraph with a parenthesis
M_FLED == <<"L","i","l","i","t","h"," ","t","h","e"," ","d","e","m","o","n"," ","f","l","e","d"," ","f","r","o","m"," ","t","h","e"," ","g","a","r","d","e","n"," ","a","n","d"," ","t","h","e","r","e"," ","s","h","e"," ","w","o","u","l","d"," ","n","o","t"," ","c","o","m","e"," ","b","a","c","k",".">>
M_SEA == <<"S","h","e"," ","f","l","e","w"," ","a","w","a","y"," ","o","v","e","r"," ","t","h","e"," ","s","e","a"," ","(","s","o"," ","i","t"," ","i","s"," ","t","o","l","d",")"," ","a","n","d"," ","w","o","u","l","d"," ","n","o","t"," ","c","o","m","e"," ","b","a","c","k"," ","t","o"," ","t","h","e"," ","m","a","n",".">>

\* what parseSchwartzFile returns for a record with this title line and
\* this one paragraph under BOOK ONE
schwartzRecord(titleLine, paragraph) ==
  finalizeA([newMythA(titleLine, BOOK_ONE, <<>>) EXCEPT !.content = paragraph])

\* the database main writes for a Schwartz file with these records and two
\* Ginzberg files with none
databaseOf(myths) == makeDatabase(myths, <<>>, <<>>, 1)

\* two myths of one title
PageCorpus ==
  databaseOf(<<schwartzRecord(<<"2","."," ","L","I","L","I","T","H">>, M_FLED), schwartzRecord(<<"3","."," ","L","I","L","I","T","H">>, M_SEA)>>)

\* what is typed into the search field
PageTexts == {<<>>, <<"L","i","l","i","t","h"," ">>, <<"(">>}

InitBrowser(databases) ==
  /\ pc = "page"
  /\ state = initialState
  /\ elements = initialElements
  /\ searchTimeout = 0
  /\ cleared = "no"
  /\ output \in {<<>>} \cup {<<db>> : db \in databases}
  /\ text = <<>> /\ references = <<>> /\ themes = <<>>
  /\ content = NoDoc /\ volume = 0 /\ seg = NoSeg /\ result = <<>>
  /\ files = <<>> /\ schwartzMyths = <<>> /\ ginzberg1Myths = <<>> /\ ginzberg2Myths = <<>>
  /\ database = <<>> /\ previous = <<>> /\ runs = 0 /\ process = NotStarted

\* the handlers that call applyFilters or renderResults
BrowseStep(texts) ==
  \/ UI_Init \/ UI_InitFailed
  \/ \E value \in texts : UI_Input(value)
  \/ UI_SearchTimer
  \/ \E source \in SourceChips : UI_SourceChip(source)
  \/ \E theme \in Range(elements.themeChips) : UI_ThemeChip(theme)
  \/ \E book \in Range(elements.bookOptions) : UI_BookChange(book)
  \/ \E sort \in SortKeys : UI_SortButton(sort)
  \/ UI_ClearFilters

InitPage == InitBrowser({PageCorpus})
NextPage ==
  \/ BrowseStep(PageTexts)
  \/ \E mode \in {"cards", "list"} : UI_ViewMode(mode)
  \/ \E k \in 1..ITEMS_PER_PAGE : UI_CardClick(k)
  \/ UI_CloseModal
SpecPage == InitPage /\ [][NextPage]_vars

----------------------------------------------------------------------------
(* SpecBrowse: the filters and the pagination over a corpus of more than    *)
(* one page                                                                 *)

MaxMyths == 25
M_DAWN == <<"T","h","e"," ","a","n","g","e","l"," ","o","f"," ","t","h","e"," ","l","i","g","h","t"," ","w","e","n","t"," ","o","u","t"," ","o","v","e","r"," ","t","h","e"," ","s","e","a"," ","(","i","t"," ","i","s"," ","t","o","l","d",")"," ","a","n","d"," ","d","i","d"," ","n","o","t"," ","c","o","m","e"," ","b","a","c","k",".">>

\* the decimal digits of k < 100
numeral(k) ==
  LET digit(d) == CHOOSE c \in Digits : DigitValue[c] = d
  IN  IF k < 10 THEN <<digit(k)>> ELSE <<digit(k \div 10), digit(k % 10)>>

\* myths 1. LIGHT A, 2. LIGHT B, ... with the same paragraph
BrowseCorpus ==
  databaseOf([k \in 1..MaxMyths |->
                schwartzRecord(numeral(k) \o <<"."," ","L","I","G","H","T"," ">> \o <<UpperLetters[k]>>, M_DAWN)])

BrowseTexts == {<<>>, <<"L","i","g","h","t"," ","B">>, <<" ","L","I","G","H","T">>, <<"(">>}

InitBrowse == InitBrowser({BrowseCorpus})
NextBrowse == BrowseStep(BrowseTexts) \/ UI_PrevPage \/ UI_NextPage
SpecBrowse == InitBrowse /\ [][NextBrowse]_vars
-----------------------------------------------------------------------------
(* Properties of the browsing page                                          *)

\* a record of filteredMyths without the score attached to it
withoutScore(myth) == [f \in DOMAIN myth \ {"relevanceScore"} |-> myth[f]]

\* C23: no handler of the page modifies state.myths or a record of it after
\* loadData: state.myths stays the list of the database, in its order, its
\* records (the records of the pipeline) carry no relevanceScore, and every
\* record of filteredMyths is a copy of a record of state.myths with a
\* relevanceScore attached
C23_MythsNeverModified ==
  Listening =>
    /\ state.myths = output[1].myths
    /\ \A k \in 1..Len(state.myths) : "relevanceScore" \notin DOMAIN state.myths[k]
    /\ \A k \in 1..Len(state.filteredMyths) :
         /\ "relevanceScore" \in DOMAIN state.filteredMyths[k]
         /\ \E j \in 1..Len(state.myths) : withoutScore(state.filteredMyths[k]) = state.myths[j]

\* a search has scored the copies and a sort and a filter have run
C23_Witness ==
  /\ Listening
  /\ state.searchQuery # <<>>
  /\ state.sortBy = "title"
  /\ state.selectedSource = SCHWARTZ
  /\ Len(state.filteredMyths) = 2
  /\ \A k \in 1..2 : state.filteredMyths[k].relevanceScore > 0

\* Math.max(1, totalPages)
lastPage(st) == IF totalPages(st) > 1 THEN totalPages(st) ELSE 1

\* C24: after any sequence of search, source, theme and book filter, sort,
\* clear-filters and previous/next-page events the current page is a page of
\* the list: 1 <= currentPage <= max(1, ceil(|filteredMyths| / itemsPerPage)),
\* and what is rendered is that page
C24_PageInRange ==
  Listening =>
    /\ 1 <= state.currentPage
    /\ state.currentPage <= lastPage(state)
    /\ elements.pageInfo[1] \in 1..lastPage(state)

\* the second page of a list of more than one page is shown
C24_Witness ==
  /\ Listening
  /\ state.currentPage = 2
  /\ totalPages(state) = 2
  /\ elements.pageInfo[1] = 2
  /\ Len(elements.resultsGrid) = Len(state.filteredMyths) - ITEMS_PER_PAGE

\* the myth passes every filter that is set
passesFilters(st, myth) ==
  /\ st.searchQuery # <<>> => includes(searchText(myth), st.searchQuery)
  /\ st.selectedSource # ALL => myth.sourceWork = st.selectedSource
  /\ st.selectedThemes # <<>> => Range(myth.themes) \cap Range(st.selectedThemes) # {}
  /\ st.selectedBook # ALL => myth.book = st.selectedBook

\* the records of filteredMyths, their scores left out
shownMyths(st) == {withoutScore(st.filteredMyths[k]) : k \in 1..Len(st.filteredMyths)}

\* C25: after a handler that calls applyFilters, filteredMyths holds exactly
\* the myths of state.myths that contain the search query (if one is set),
\* are of the selected source (unless 'all'), have one of the selected themes
\* (if any is selected) and are of the selected book (unless 'all'), whatever
\* characters the query has
C25_FilteredExactly ==
  Listening =>
    /\ shownMyths(state) = {myth \in Range(state.myths) : passesFilters(state, myth)}
    /\ Len(state.filteredMyths) = Cardinality(shownMyths(state))

\* the same for the queries a RegExp can be built from
C25_PatternQueries ==
  (Listening /\ ~RegExpThrows(state.searchQuery)) => C25_FilteredExactly

\* no filter but the search is set
onlySearch(st) == st.selectedSource = ALL /\ st.selectedThemes = <<>> /\ st.selectedBook = ALL

\* C26: a pending search timer cannot reinstate a cleared search. At most one
\* timer is pending whatever the burst of input events, its callback applies
\* the filters once with the value the field has when it fires, and when
\* clearAllFilters has run after the last input event and no timer is left,
\* searchQuery is empty and, no other filter being set, filteredMyths holds
\* every myth
C26_ClearedSearchStays ==
  /\ [](Listening => searchTimeout <= 1)
  /\ []((Listening /\ cleared # "no" /\ searchTimeout = 0) =>
          /\ state.searchQuery = <<>>
          /\ elements.searchInput = <<>>
          /\ onlySearch(state) => shownMyths(state) = Range(state.myths))
  /\ [][UI_SearchTimer =>
          /\ searchTimeout' = 0
          /\ state'.searchQuery = trim(toLowerCase(elements.searchInput))
          /\ ~applyThrows(state') => state'.filteredMyths = filtered(state')]_vars

\* the filters were cleared while a timer was pending and the timer has
\* fired since
C26_Witness ==
  /\ Listening
  /\ cleared = "pending"
  /\ searchTimeout = 0
  /\ state.searchQuery = <<>>
  /\ Len(state.filteredMyths) = Len(state.myths)

\* C27: a click on a result card opens the modal of the record the card was
\* rendered from: the modal shows the title, the source work and the content
\* of a record of the list whose card is the card clicked
C27_CardOpensItsRecord ==
  [][\A k \in 1..ITEMS_PER_PAGE :
       UI_CardClick(k) =>
         \E j \in 1..Len(state.filteredMyths) :
           /\ createMythCard(state.filteredMyths[j]) = elements.resultsGrid[k]
           /\ elements'.modalContent = modalOf(state.filteredMyths[j])]_vars

\* C28: clearAllFilters resets searchQuery, selectedSource, selectedThemes,
\* selectedBook, sortBy and currentPage to their initial values, leaves myths,
\* metadata, itemsPerPage and viewMode as they are, and ends with filteredMyths
\* holding every myth, from any state of the page
C28_ClearAllFilters ==
  [][UI_ClearFilters =>
       /\ state'.searchQuery = <<>>
       /\ state'.selectedSource = ALL
       /\ state'.selectedThemes = <<>>
       /\ state'.selectedBook = ALL
       /\ state'.sortBy = "relevance"
       /\ state'.currentPage = 1
       /\ state'.myths = state.myths
       /\ state'.metadata = state.metadata
       /\ state'.itemsPerPage = state.itemsPerPage
       /\ state'.viewMode = state.viewMode
       /\ shownMyths(state') = Range(state.myths)
       /\ Len(state'.filteredMyths) = Len(state.myths)]_vars

\* the filters have been cleared with the list view chosen
C28_Witness ==
  /\ Listening
  /\ cleared = "idle"
  /\ state.viewMode = "list"
  /\ state.searchQuery = <<>>
  /\ state.sortBy = "relevance"
  /\ elements.searchInput = <<>>
  /\ Len(state.filteredMyths) = 2

============================================================================
